---- MODULE Spec2Model ----
(***************************************************************************)
(* Model of the constrained JSON value types of serde-json-extensions:     *)
(* the Value Builder (generic Serializer), the Map-Key Encoder, the        *)
(* escape-hatch emitters, the Deserialize bindings of the value types and  *)
(* the Value-Backed Deserializer.                                          *)
(*                                                                         *)
(* A conversion is driven by the input's own Serialize implementation,     *)
(* which calls the serializer protocol one method at a time.  The top      *)
(* level of that protocol is modelled step by step (one action per         *)
(* protocol call); nested elements are converted by to_value, exactly as   *)
(* serialize_element does in the source.                                   *)
(***************************************************************************)
EXTENDS Integers, Sequences, FiniteSets, TLC

VARIABLES
    arbitrary_precision,  \* cfg(feature = "arbitrary_precision")
    raw_value,            \* cfg(feature = "raw_value")
    ty,                   \* the value type in use
    mode,                 \* "ser": T -> value; "de": generic source -> value
    input,                \* the data-model description of the value converted
    origin,               \* the Value Node the input describes, if it is one
    pc,                   \* position of the driver in the protocol
    ser,                  \* the compound serializer in use (SerializeVec, ...)
    rest,                 \* elements / entries / fields not yet fed
    result,               \* the Result of the conversion
    back                  \* the Result of deserializing the built node back

vars == <<arbitrary_precision, raw_value, ty, mode, input, origin, pc, ser,
          rest, result, back>>

-----------------------------------------------------------------------------
(* Bounds of the model.                                                    *)

\* Integer widths are scaled down: an i8 has Bits bits, each wider type one
\* more bit than the one before (i8 < i16 < i32 < i64 < i128).
Bits == 1
\* Finite floats are the multiples of 1/2 with magnitude <= MaxHalves / 2.
MaxHalves == 3
\* Longest sequence / map / struct fed to the builder.
MaxLen == 2

W8 == Bits
W16 == Bits + 1
W32 == Bits + 2
W64 == Bits + 3
W128 == Bits + 4

IMin(w) == -(2 ^ (w - 1))
IMax(w) == (2 ^ (w - 1)) - 1
UMax(w) == (2 ^ w) - 1

I64_MIN == IMin(W64)
I64_MAX == IMax(W64)
U64_MAX == UMax(W64)

-----------------------------------------------------------------------------
(* Floats: a class and, when finite, a number of halves.                   *)

Finite(m) == [cls |-> "finite", m |-> m]
NaN == [cls |-> "nan", m |-> 0]
PosInf == [cls |-> "inf", m |-> 0]
NegInf == [cls |-> "-inf", m |-> 0]

Floats == {Finite(m) : m \in (-MaxHalves)..MaxHalves} \cup {NaN, PosInf, NegInf}

is_finite(f) == f.cls = "finite"

-----------------------------------------------------------------------------
(* Results.                                                                *)

Ok(v) == [ok |-> TRUE, v |-> v]
OkKey(s) == [ok |-> TRUE, key |-> s]
OkUnit == [ok |-> TRUE]
Err(code, unexp, exp) == [ok |-> FALSE, code |-> code, unexp |-> unexp, exp |-> exp]
\* An abort (unreachable!, expect): not a returned error.
Abort(msg) == [ok |-> FALSE, code |-> "abort", unexp |-> "", exp |-> msg]
NoResult == [pending |-> TRUE]

invalid_type(unexp, exp) == Err("InvalidType", unexp, exp)
invalid_value(unexp, exp) == Err("InvalidValue", unexp, exp)
NumberOutOfRange == Err("NumberOutOfRange", "", "")
key_must_be_a_string == Err("KeyMustBeAString", "", "")
float_key_must_be_finite == Err("FloatKeyMustBeFinite", "", "")
invalid_number == Err("InvalidNumber", "", "")
invalid_raw_value == Err("ExpectedSomeValue", "", "")

None == [some |-> FALSE]
SomeKey(s) == [some |-> TRUE, key |-> s]
SomeVal(v) == [some |-> TRUE, v |-> v]

-----------------------------------------------------------------------------
(* Numbers and Value Nodes.                                                *)

PosInt(n) == [kind |-> "PosInt", n |-> n]
NegInt(n) == [kind |-> "NegInt", n |-> n]
Float(f) == [kind |-> "Float", f |-> f]

\* impl From<i64> for Number: negative values are NegInt, the others PosInt.
Number_from_i64(n) == IF n < 0 THEN NegInt(n) ELSE PosInt(n)
\* impl From<u64> for Number
Number_from_u64(n) == PosInt(n)
\* impl From<i128> / From<u128> for Number (arbitrary_precision): the decimal
\* text of the value, of any magnitude
Number_from_i128(n) == IF n < 0 THEN NegInt(n) ELSE PosInt(n)
Number_from_u128(n) == PosInt(n)
\* Number::from_f64 / from_f32: None unless the float is finite.
Number_from_f64(f) == IF is_finite(f) THEN SomeVal(Float(f)) ELSE None

Null == [tag |-> "Null"]
Bool(b) == [tag |-> "Bool", b |-> b]
Number(n) == [tag |-> "Number", num |-> n]
String(s) == [tag |-> "String", s |-> s]
Array(xs) == [tag |-> "Array", xs |-> xs]
Object(es) == [tag |-> "Object", es |-> es]

ValueTypes == {"ScalarValue", "ValueNoObjOrArr", "ValueNoObj"}
BuilderTypes == {"ValueNoObjOrArr", "ValueNoObj"}

\* crate::number::TOKEN and crate::raw::TOKEN
NUMBER_TOKEN == "$serde_json::private::Number"
RAW_TOKEN == "$serde_json::private::RawValue"

-----------------------------------------------------------------------------
(* Text conversions used by the Map-Key Encoder.                           *)

\* bool::to_string
bool_to_string(b) == IF b THEN "true" ELSE "false"
\* {integer}::to_string: decimal text
int_to_string(n) == ToString(n)
\* ryu::Buffer::format_finite: shortest round-trip decimal text, which for a
\* multiple of 1/2 is the integer part, a point and one digit.
format_finite(f) ==
    LET a == IF f.m < 0 THEN -f.m ELSE f.m
    IN (IF f.m < 0 THEN "-" ELSE "") \o ToString(a \div 2) \o "."
       \o (IF a % 2 = 0 THEN "0" ELSE "5")

-----------------------------------------------------------------------------
(* Map-Key Encoder: impl serde::Serializer for MapKeySerializer.           *)

MapKey_serialize_unit_variant(variant) == OkKey(variant)
MapKey_serialize_bool(b) == OkKey(bool_to_string(b))
\* serialize_i8 .. serialize_u64 are all Ok(value.to_string())
MapKey_serialize_int(n) == OkKey(int_to_string(n))
\* A faulty variant of serialize_f32 / serialize_f64: a key that is not
\* finite rejected like a compound key.
MapKey_serialize_float_as_compound(f) ==
    IF is_finite(f) THEN OkKey(format_finite(f)) ELSE key_must_be_a_string
\* serialize_f32 / serialize_f64
MapKey_serialize_float(f) ==
    IF is_finite(f) THEN OkKey(format_finite(f)) ELSE float_key_must_be_finite
MapKey_serialize_char(s) == OkKey(s)
MapKey_serialize_str(s) == OkKey(s)
\* bytes, unit, unit struct, newtype variant, none, some, seq, tuple, tuple
\* struct, tuple variant, map, struct, struct variant
MapKey_reject == key_must_be_a_string
\* serialize_i128 / serialize_u128 are not overridden: serde's default
MapKey_serialize_128 == Err("Custom", "", "i128 is not supported")

IntKinds == {"i8", "i16", "i32", "i64", "u8", "u16", "u32", "u64"}
FloatKinds == {"f32", "f64"}
SeqKinds == {"seq", "tuple", "tuple_struct"}

RECURSIVE MapKey_serialize(_)
\* key.serialize(MapKeySerializer); serialize_newtype_struct recurses into
\* the wrapped value with the same serializer.
MapKey_serialize(x) ==
    CASE x.k = "unit_variant" -> MapKey_serialize_unit_variant(x.variant)
      [] x.k = "newtype_struct" -> MapKey_serialize(x.x)
      [] x.k = "bool" -> MapKey_serialize_bool(x.b)
      [] x.k \in IntKinds -> MapKey_serialize_int(x.n)
      [] x.k \in {"i128", "u128"} -> MapKey_serialize_128
      [] x.k \in FloatKinds -> MapKey_serialize_float(x.f)
      [] x.k = "char" -> MapKey_serialize_char(x.s)
      [] x.k = "str" -> MapKey_serialize_str(x.s)
      [] OTHER -> MapKey_reject

-----------------------------------------------------------------------------
(* The data model.  A value of it describes what a Serialize impl feeds to *)
(* a serializer, or what a self-describing source feeds to a visitor.      *)

DBool(b) == [k |-> "bool", b |-> b]
DInt(kind, n) == [k |-> kind, n |-> n]
DFloat(kind, f) == [k |-> kind, f |-> f]
DChar(s) == [k |-> "char", s |-> s]
DStr(s) == [k |-> "str", s |-> s]
\* an owned string handed over by a source (visit_string)
DString(s) == [k |-> "string", s |-> s]
DBytes(bs) == [k |-> "bytes", bs |-> bs]
DUnit == [k |-> "unit"]
DNone == [k |-> "none"]
DSome(x) == [k |-> "some", x |-> x]
DUnitStruct(name) == [k |-> "unit_struct", name |-> name]
DUnitVariant(name, idx, variant) ==
    [k |-> "unit_variant", name |-> name, idx |-> idx, variant |-> variant]
DNewtypeStruct(name, x) == [k |-> "newtype_struct", name |-> name, x |-> x]
DNewtypeVariant(name, idx, variant, x) ==
    [k |-> "newtype_variant", name |-> name, idx |-> idx, variant |-> variant, x |-> x]
DSeq(xs) == [k |-> "seq", xs |-> xs]
DTuple(xs) == [k |-> "tuple", xs |-> xs]
DTupleStruct(name, xs) == [k |-> "tuple_struct", name |-> name, xs |-> xs]
DTupleVariant(name, idx, variant, xs) ==
    [k |-> "tuple_variant", name |-> name, idx |-> idx, variant |-> variant, xs |-> xs]
\* es: a sequence of entries [key |-> data, val |-> data]
DMap(es) == [k |-> "map", es |-> es]
\* fs: a sequence of fields [key |-> string, val |-> data]
DStruct(name, fs) == [k |-> "struct", name |-> name, fs |-> fs]
DStructVariant(name, idx, variant, fs) ==
    [k |-> "struct_variant", name |-> name, idx |-> idx, variant |-> variant, fs |-> fs]

Entry(key, val) == [key |-> key, val |-> val]

-----------------------------------------------------------------------------
(* Text: the from-text parser and the number parser are collaborators; the *)
(* model knows them on a table of texts.                                   *)

\* The integers and floats whose text the number parser is known on.
NumRange == IMin(W128)..UMax(W128)
HalfRange == (-MaxHalves)..MaxHalves

\* <Number as FromStr>::from_str: the integer or the float the decimal text
\* denotes, or a syntax error.
Number_from_str(text) ==
    IF \E n \in NumRange : int_to_string(n) = text
    THEN LET n == CHOOSE n \in NumRange : int_to_string(n) = text
         IN Ok(IF n < 0 THEN NegInt(n) ELSE PosInt(n))
    ELSE IF \E m \in HalfRange : format_finite(Finite(m)) = text
    THEN Ok(Float(Finite(CHOOSE m \in HalfRange : format_finite(Finite(m)) = text)))
    ELSE Err("Syntax", "", "invalid number")

\* impl Display for Number: its decimal text
Number_to_string(n) ==
    IF n.kind = "Float" THEN format_finite(n.f) ELSE int_to_string(n.n)

\* What the JSON parser feeds to a visitor for a text (deserialize_any).
parse_any(text) ==
    CASE text = "null" -> Ok(DUnit)
      [] text = "true" -> Ok(DBool(TRUE))
      [] text = "1" -> Ok(DInt("u64", 1))
      [] text = "-1" -> Ok(DInt("i64", -1))
      [] text = "1.5" -> Ok(DFloat("f64", Finite(3)))
      [] text = "\"a\"" -> Ok(DStr("a"))
      [] text = "[1,2,3]" -> Ok(DSeq(<<DInt("u64", 1), DInt("u64", 2), DInt("u64", 3)>>))
      [] text = "[]" -> Ok(DSeq(<<>>))
      [] text = "{}" -> Ok(DMap(<<>>))
      [] text = "{\"a\":1}" -> Ok(DMap(<<Entry(DStr("a"), DInt("u64", 1))>>))
      [] OTHER -> Err("Syntax", "", "expected value")

-----------------------------------------------------------------------------
(* Key Classifier: impl Visitor for KeyClassifier.                         *)

KeyClass_Map(s) == [class |-> "Map", s |-> s]
KeyClass_Number == [class |-> "Number"]
KeyClass_RawValue == [class |-> "RawValue"]

KeyClassifier_visit_str(s) ==
    CASE arbitrary_precision /\ s = NUMBER_TOKEN -> Ok(KeyClass_Number)
      [] raw_value /\ s = RAW_TOKEN -> Ok(KeyClass_RawValue)
      [] OTHER -> Ok(KeyClass_Map(s))

\* A faulty variant of visit_string: every owned key taken as ordinary.
KeyClassifier_visit_string_ordinary(s) == Ok(KeyClass_Map(s))
KeyClassifier_visit_string(s) ==
    CASE arbitrary_precision /\ s = NUMBER_TOKEN -> Ok(KeyClass_Number)
      [] raw_value /\ s = RAW_TOKEN -> Ok(KeyClass_RawValue)
      [] OTHER -> Ok(KeyClass_Map(s))

\* DeserializeSeed for KeyClassifier: deserializer.deserialize_str(self).  A
\* key that is not a string reaches a visit_* the classifier does not
\* override, and serde's default rejects it.
KeyClassifier_deserialize(key) ==
    CASE key.k = "str" -> KeyClassifier_visit_str(key.s)
      [] key.k = "string" -> KeyClassifier_visit_string(key.s)
      [] OTHER -> invalid_type(key.k, "a string key")

-----------------------------------------------------------------------------
(* impl Deserialize for the value types: ValueVisitor.                     *)

\* ValueVisitor::expecting
expecting == "any valid JSON value"

visit_bool(value) == Ok(Bool(value))
visit_i64(value) == Ok(Number(Number_from_i64(value)))
visit_u64(value) == Ok(Number(Number_from_u64(value)))
\* Number::from_f64(value).map_or(Null, Number)
visit_f64(value) ==
    LET n == Number_from_f64(value)
    IN Ok(IF n.some THEN Number(n.v) ELSE Null)
visit_string(value) == Ok(String(value))
\* self.visit_string(String::from(value))
visit_str(value) == visit_string(value)
visit_none == Ok(Null)
visit_unit == Ok(Null)

\* Map::insert: replaces the value of a key already there, else adds it.
Map_insert(m, key, val) ==
    IF \E i \in 1..Len(m) : m[i].key = key
    THEN [i \in 1..Len(m) |-> IF m[i].key = key THEN Entry(key, val) ELSE m[i]]
    ELSE Append(m, Entry(key, val))

\* visitor.next_value::<NumberFromString>(): a string, parsed as a Number
next_value_NumberFromString(val) ==
    IF val.k \in {"str", "string"}
    THEN Number_from_str(val.s)
    ELSE invalid_type(val.k, "string containing a number")

\* visitor.next_value_seed(BoxedFromString): a string, kept as raw text
next_value_BoxedFromString(val) ==
    IF val.k \in {"str", "string"}
    THEN OkKey(val.s)
    ELSE invalid_type(val.k, "raw value")

RECURSIVE Deserialize(_, _)

\* crate::from_str::<T>: parse the text and feed it to T's Deserialize.
from_str(t, text) ==
    LET c == parse_any(text)
    IN IF c.ok THEN Deserialize(t, c.v) ELSE c

RECURSIVE next_entries(_, _)
\* while let Some((key, value)) = visitor.next_entry::<String, Value>()
next_entries(values, es) ==
    IF es = <<>> THEN Ok(values)
    ELSE IF Head(es).key.k \notin {"str", "string"}
         THEN invalid_type(Head(es).key.k, "a string")
         ELSE next_entries(Map_insert(values, Head(es).key.s, Head(es).val), Tail(es))

\* .map_err(de::Error::custom): a failure becomes the map's custom error,
\* carrying the original's message.
map_err_custom(r) == IF r.ok THEN r ELSE Err("Custom", "", r.exp)

\* scalar_value/de.rs: ValueVisitor::visit_map
ScalarValue_visit_map(es) ==
    LET key == IF es = <<>> THEN Ok(None)
               ELSE KeyClassifier_deserialize(es[1].key)
    IN IF ~key.ok THEN key
       ELSE IF key.v = None THEN Ok(Object(<<>>))
       ELSE IF key.v = KeyClass_Number
            THEN LET number == next_value_NumberFromString(es[1].val)
                 IN IF number.ok THEN Ok(Number(number.v)) ELSE number
       ELSE IF key.v = KeyClass_RawValue
            THEN LET value == next_value_BoxedFromString(es[1].val)
                 IN IF value.ok THEN map_err_custom(from_str("ScalarValue", value.key))
                    ELSE value
       ELSE LET values == next_entries(Map_insert(<<>>, key.v.s, es[1].val), Tail(es))
            IN IF values.ok THEN Ok(Object(values.v)) ELSE values

\* value_no_obj_or_arr/de.rs: ValueVisitor::visit_map
NoObjOrArr_visit_map(es) ==
    LET key == IF es = <<>> THEN Ok(None)
               ELSE KeyClassifier_deserialize(es[1].key)
    IN IF ~key.ok THEN key
       ELSE IF key.v = None
            THEN invalid_type("Other", "must provide non-array | non-object")
       ELSE IF key.v = KeyClass_Number
            THEN LET number == next_value_NumberFromString(es[1].val)
                 IN IF number.ok THEN Ok(Number(number.v)) ELSE number
       ELSE IF key.v = KeyClass_RawValue
            THEN LET value == next_value_BoxedFromString(es[1].val)
                 IN IF value.ok THEN map_err_custom(from_str("ValueNoObjOrArr", value.key))
                    ELSE value
       ELSE invalid_type("Map", "non map")

\* The Scalar-or-Array type's visit_map: no Object exists, as for the
\* Scalar-only type.
NoObj_visit_map(es) ==
    LET key == IF es = <<>> THEN Ok(None)
               ELSE KeyClassifier_deserialize(es[1].key)
    IN IF ~key.ok THEN key
       ELSE IF key.v = None
            THEN invalid_type("Other", "must provide non-object")
       ELSE IF key.v = KeyClass_Number
            THEN LET number == next_value_NumberFromString(es[1].val)
                 IN IF number.ok THEN Ok(Number(number.v)) ELSE number
       ELSE IF key.v = KeyClass_RawValue
            THEN LET value == next_value_BoxedFromString(es[1].val)
                 IN IF value.ok THEN map_err_custom(from_str("ValueNoObj", value.key))
                    ELSE value
       ELSE invalid_type("Map", "non map")

RECURSIVE NoObj_visit_seq(_, _)
\* The Scalar-or-Array type's visit_seq: each element in order, the first
\* failure returned.
NoObj_visit_seq(vec, xs) ==
    IF xs = <<>> THEN Ok(Array(vec))
    ELSE LET elem == Deserialize("ValueNoObj", Head(xs))
         IN IF elem.ok THEN NoObj_visit_seq(Append(vec, elem.v), Tail(xs)) ELSE elem

\* Visitor's provided methods that ValueVisitor does not override.
visit_default(c) == invalid_type(c.k, expecting)

visit_map(t, es) ==
    CASE t = "ScalarValue" -> ScalarValue_visit_map(es)
      [] t = "ValueNoObjOrArr" -> NoObjOrArr_visit_map(es)
      [] t = "ValueNoObj" -> NoObj_visit_map(es)

\* T::deserialize(deserializer): deserializer.deserialize_any(ValueVisitor),
\* the source calling the visit_* method of what it holds.
Deserialize(t, c) ==
    CASE c.k = "bool" -> visit_bool(c.b)
      [] c.k \in {"i8", "i16", "i32", "i64"} -> visit_i64(c.n)
      [] c.k \in {"u8", "u16", "u32", "u64"} -> visit_u64(c.n)
      [] c.k \in FloatKinds -> visit_f64(c.f)
      [] c.k \in {"str", "char"} -> visit_str(c.s)
      [] c.k = "string" -> visit_string(c.s)
      [] c.k = "none" -> visit_none
      [] c.k = "some" -> Deserialize(t, c.x)
      [] c.k = "unit" -> visit_unit
      [] c.k = "map" -> visit_map(t, c.es)
      [] c.k = "seq" /\ t = "ValueNoObj" -> NoObj_visit_seq(<<>>, c.xs)
      [] OTHER -> visit_default(c)

-----------------------------------------------------------------------------
(* Value Builder: impl serde::Serializer for Serializer.  The methods that *)
(* read the same in value_no_obj/ser.rs and value_no_obj_or_arr/ser.rs are *)
(* one definition; the others carry the type's name.                       *)

\* u64::try_from(value).is_ok() / i64::try_from(value).is_ok()
u64_try_from(value) == 0 <= value /\ value <= U64_MAX
i64_try_from(value) == I64_MIN <= value /\ value <= I64_MAX

\* impl From<f64> / From<f32> for the value types (from.rs)
\* A faulty variant of From<f64>: the float kept whatever it is.
From_f64_unchecked(f) == Number(Float(f))
From_f64(f) ==
    LET n == Number_from_f64(f)
    IN IF n.some THEN Number(n.v) ELSE Null
From_f32(f) ==
    LET n == Number_from_f64(f)
    IN IF n.some THEN Number(n.v) ELSE Null

serialize_bool(value) == Ok(Bool(value))
serialize_i64(value) == Ok(Number(Number_from_i64(value)))
\* value as i64
serialize_i8(value) == serialize_i64(value)
serialize_i16(value) == serialize_i64(value)
serialize_i32(value) == serialize_i64(value)
\* A faulty variant of serialize_u64: the value cast to i64.
serialize_u64_as_i64(value) ==
    serialize_i64(IF value > I64_MAX THEN value - 2 ^ W64 ELSE value)
serialize_u64(value) == Ok(Number(Number_from_u64(value)))
\* value as u64
serialize_u8(value) == serialize_u64(value)
serialize_u16(value) == serialize_u64(value)
serialize_u32(value) == serialize_u64(value)

\* A faulty variant of serialize_i128: the unsigned 64-bit range forgotten.
serialize_i128_signed_only(value) ==
    IF arbitrary_precision
    THEN Ok(Number(Number_from_i128(value)))
    ELSE IF i64_try_from(value) THEN Ok(Number(Number_from_i64(value)))
    ELSE NumberOutOfRange

serialize_i128(value) ==
    IF arbitrary_precision
    THEN Ok(Number(Number_from_i128(value)))
    ELSE IF u64_try_from(value) THEN Ok(Number(Number_from_u64(value)))
    ELSE IF i64_try_from(value) THEN Ok(Number(Number_from_i64(value)))
    ELSE NumberOutOfRange

serialize_u128(value) ==
    IF arbitrary_precision
    THEN Ok(Number(Number_from_u128(value)))
    ELSE IF u64_try_from(value) THEN Ok(Number(Number_from_u64(value)))
    ELSE NumberOutOfRange

serialize_f32(float) == Ok(From_f32(float))
serialize_f64(float) == Ok(From_f64(float))
serialize_char(value) == Ok(String(value))
serialize_str(value) == Ok(String(value))
serialize_unit == Ok(Null)
serialize_unit_struct(name) == serialize_unit
\* A faulty variant of serialize_unit_variant: the enum's name kept.
serialize_unit_variant_by_name(name, variant_index, variant) == serialize_str(name)
serialize_unit_variant(name, variant_index, variant) == serialize_str(variant)
serialize_none == serialize_unit

\* A faulty variant of serialize_bytes: the last byte left out.
NoObj_serialize_bytes_short(value) ==
    Ok(Array([i \in 1..(Len(value) - 1) |-> Number(Number_from_u64(value[i]))]))
\* value_no_obj/ser.rs: one Number per byte
NoObj_serialize_bytes(value) ==
    Ok(Array([i \in 1..Len(value) |-> Number(Number_from_u64(value[i]))]))
\* The Scalar-only builder has no Array to put bytes in.
NoObjOrArr_serialize_bytes(value) == invalid_type("Bytes", "`Array` isn't supported")

NoObj_serialize_newtype_variant(name, variant_index, variant, value) ==
    invalid_type("Map", "`Object` isn't supported")
\* The Scalar-only builder: newtype variants fail.
NoObjOrArr_serialize_newtype_variant(name, variant_index, variant, value) ==
    invalid_type("Map", "`Object` isn't supported")

\* The compound serializers, as begun.
OkState(st) == [ok |-> TRUE, st |-> st]
SerializeVec(vec) == [kind |-> "SerializeVec", vec |-> vec]
NoObj_SerializeTupleVariant(vec) == [kind |-> "SerializeTupleVariant", vec |-> vec]
NoObjOrArr_SerializeTupleVariant(name, vec) ==
    [kind |-> "SerializeTupleVariant", name |-> name, vec |-> vec]
SerializeMap_Map(map, next_key) == [kind |-> "Map", map |-> map, next_key |-> next_key]
SerializeMap_Number(out_value) == [kind |-> "Number", out_value |-> out_value]
SerializeMap_RawValue(out_value) == [kind |-> "RawValue", out_value |-> out_value]
NoObj_SerializeStructVariant == [kind |-> "SerializeStructVariant"]
NoObjOrArr_SerializeStructVariant(name, map) ==
    [kind |-> "SerializeStructVariant", name |-> name, map |-> map]
NoSerializer == [kind |-> "none"]

NoObj_serialize_seq(len) == OkState(SerializeVec(<<>>))
NoObj_serialize_tuple(len) == NoObj_serialize_seq(len)
NoObj_serialize_tuple_struct(name, len) == NoObj_serialize_seq(len)
NoObj_serialize_tuple_variant(name, variant_index, variant, len) ==
    OkState(NoObj_SerializeTupleVariant(<<>>))
NoObj_serialize_map(len) == OkState(SerializeMap_Map(<<>>, None))
NoObj_serialize_struct(name, len) ==
    CASE arbitrary_precision /\ name = NUMBER_TOKEN -> OkState(SerializeMap_Number(None))
      [] raw_value /\ name = RAW_TOKEN -> OkState(SerializeMap_RawValue(None))
      [] OTHER -> NoObj_serialize_map(len)
NoObj_serialize_struct_variant(name, variant_index, variant, len) ==
    invalid_type("NewtypeStruct", "`Object` isn't supported")

NoObjOrArr_serialize_seq(len) == OkState(SerializeVec(<<>>))
NoObjOrArr_serialize_tuple(len) == NoObjOrArr_serialize_seq(len)
NoObjOrArr_serialize_tuple_struct(name, len) == NoObjOrArr_serialize_seq(len)
NoObjOrArr_serialize_tuple_variant(name, variant_index, variant, len) ==
    OkState(NoObjOrArr_SerializeTupleVariant(variant, <<>>))
NoObjOrArr_serialize_map(len) == OkState(SerializeMap_Map(<<>>, None))
NoObjOrArr_serialize_struct(name, len) ==
    CASE arbitrary_precision /\ name = NUMBER_TOKEN -> OkState(SerializeMap_Number(None))
      [] raw_value /\ name = RAW_TOKEN -> OkState(SerializeMap_RawValue(None))
      [] OTHER -> NoObjOrArr_serialize_map(len)
NoObjOrArr_serialize_struct_variant(name, variant_index, variant, len) ==
    OkState(NoObjOrArr_SerializeStructVariant(variant, <<>>))

-----------------------------------------------------------------------------
(* The escape-hatch emitters (the same text for both builders).            *)

\* NumberValueEmitter: serialize_str parses the text; every other method
\* is Err(invalid_number()).
NumberValueEmitter_serialize_str(value) ==
    LET n == Number_from_str(value)
    IN IF n.ok THEN Ok(Number(n.v)) ELSE n
\* A faulty variant of the rejecting methods: Null given instead of failing.
NumberValueEmitter_accept == Ok(Null)
NumberValueEmitter_reject == invalid_number
\* serialize_i128 / serialize_u128 are not overridden: serde's default
NumberValueEmitter_serialize_128 == Err("Custom", "", "i128 is not supported")
\* value.serialize(NumberValueEmitter)
NumberValueEmitter_serialize(x) ==
    CASE x.k = "str" -> NumberValueEmitter_serialize_str(x.s)
      [] x.k \in {"i128", "u128"} -> NumberValueEmitter_serialize_128
      [] OTHER -> NumberValueEmitter_reject

\* A faulty variant of RawValueEmitter::serialize_str: the text kept as a
\* String instead of being parsed.
RawValueEmitter_keep_text(t, value) == Ok(String(value))
\* RawValueEmitter: serialize_str is crate::from_str(value); every other
\* method is Err(invalid_raw_value()).
RawValueEmitter_serialize_str(t, value) == from_str(t, value)
\* A faulty variant of the rejecting methods: invalid-number reported.
RawValueEmitter_reject_as_number == invalid_number
RawValueEmitter_reject == invalid_raw_value
\* serialize_i128 / serialize_u128 are not overridden: serde's default
RawValueEmitter_serialize_128 == Err("Custom", "", "i128 is not supported")
\* value.serialize(RawValueEmitter)
RawValueEmitter_serialize(t, x) ==
    CASE x.k = "str" -> RawValueEmitter_serialize_str(t, x.s)
      [] x.k \in {"i128", "u128"} -> RawValueEmitter_serialize_128
      [] OTHER -> RawValueEmitter_reject

-----------------------------------------------------------------------------
(* The compound serializers.                                               *)

RECURSIVE ToValue(_, _)
RECURSIVE Feed(_, _, _, _)

\* A faulty variant of SerializeSeq::serialize_element: an element that does
\* not convert is left out.
NoObj_SerializeSeq_skip_failed(st, value) ==
    LET r == ToValue("ValueNoObj", value)
    IN IF r.ok THEN OkState(SerializeVec(Append(st.vec, r.v))) ELSE OkState(st)

\* A faulty variant of SerializeSeq::serialize_element: the element put first.
NoObj_SerializeSeq_push_front(st, value) ==
    LET r == ToValue("ValueNoObj", value)
    IN IF r.ok THEN OkState(SerializeVec(<<r.v>> \o st.vec)) ELSE r

\* value_no_obj/ser.rs: impl SerializeSeq for SerializeVec
NoObj_SerializeSeq_serialize_element(st, value) ==
    LET r == ToValue("ValueNoObj", value)
    IN IF r.ok THEN OkState(SerializeVec(Append(st.vec, r.v))) ELSE r
NoObj_SerializeSeq_end(st) == Ok(Array(st.vec))

\* value_no_obj/ser.rs: impl SerializeTupleVariant for SerializeTupleVariant
NoObj_SerializeTupleVariant_serialize_field(st, value) ==
    LET r == ToValue("ValueNoObj", value)
    IN IF r.ok THEN OkState(NoObj_SerializeTupleVariant(Append(st.vec, r.v))) ELSE r
NoObj_SerializeTupleVariant_end(st) == Ok(Array(st.vec))

\* A faulty variant of SerializeMap::serialize_key: the encoded key is
\* inserted as an entry instead of being kept pending.
NoObj_SerializeMap_serialize_key_insert(st, key) ==
    IF st.kind = "Map"
    THEN LET r == MapKey_serialize(key)
         IN IF r.ok THEN OkState(SerializeMap_Map(Append(st.map, r.key), None)) ELSE r
    ELSE Abort("unreachable")

\* value_no_obj/ser.rs: impl SerializeMap for SerializeMap
NoObj_SerializeMap_serialize_key(st, key) ==
    IF st.kind = "Map"
    THEN LET r == MapKey_serialize(key)
         IN IF r.ok THEN OkState(SerializeMap_Map(st.map, SomeKey(r.key))) ELSE r
    ELSE Abort("unreachable")
\* A faulty variant of SerializeMap::serialize_value: the rejection is an
\* abort instead of a returned error.
NoObj_SerializeMap_serialize_value_abort(st, value) == Abort("unreachable")
NoObj_SerializeMap_serialize_value(st, value) ==
    IF st.kind = "Map"
    THEN invalid_type("Map", "Object aren't supported")
    ELSE Abort("unreachable")
\* A faulty variant of SerializeMap::end: the entries returned as an Object.
NoObj_SerializeMap_end_object(st) == Ok(Object(st.map))
NoObj_SerializeMap_end(st) ==
    IF st.kind = "Map"
    THEN invalid_type("Map", "Object aren't supported")
    ELSE Abort("unreachable")
\* SerializeMap::serialize_entry (provided): the key, then the value
NoObj_SerializeMap_serialize_entry(st, key, value) ==
    LET r == NoObj_SerializeMap_serialize_key(st, key)
    IN IF r.ok THEN NoObj_SerializeMap_serialize_value(r.st, value) ELSE r

\* value_no_obj/ser.rs: impl SerializeStruct for SerializeMap
NoObj_SerializeStruct_serialize_field(st, key, value) ==
    CASE st.kind = "Map" -> NoObj_SerializeMap_serialize_entry(st, DStr(key), value)
      [] st.kind = "Number" ->
            IF key = NUMBER_TOKEN
            THEN LET r == NumberValueEmitter_serialize(value)
                 IN IF r.ok THEN OkState(SerializeMap_Number(SomeVal(r.v))) ELSE r
            ELSE invalid_number
      [] st.kind = "RawValue" ->
            IF key = RAW_TOKEN
            THEN LET r == RawValueEmitter_serialize("ValueNoObj", value)
                 IN IF r.ok THEN OkState(SerializeMap_RawValue(SomeVal(r.v))) ELSE r
            ELSE invalid_raw_value
NoObj_SerializeStruct_end(st) ==
    CASE st.kind = "Map" -> NoObj_SerializeMap_end(st)
      [] st.kind = "Number" ->
            IF st.out_value.some THEN Ok(st.out_value.v)
            ELSE Abort("number value was not emitted")
      [] st.kind = "RawValue" ->
            IF st.out_value.some THEN Ok(st.out_value.v)
            ELSE Abort("raw value was not emitted")

\* value_no_obj/ser.rs: impl SerializeStructVariant for SerializeStructVariant
NoObj_SerializeStructVariant_serialize_field(st, key, value) ==
    invalid_type("Map", "Object unsupported")
NoObj_SerializeStructVariant_end(st) == invalid_type("Map", "Object unsupported")

\* The Scalar-only builder's compound serializers.  A sequence, a tuple
\* variant or a struct variant cannot be held: they fail with invalid-type.
NoObjOrArr_SerializeSeq_serialize_element(st, value) ==
    invalid_type("Seq", "`Array` isn't supported")
NoObjOrArr_SerializeSeq_end(st) == invalid_type("Seq", "`Array` isn't supported")
NoObjOrArr_SerializeTupleVariant_serialize_field(st, value) ==
    invalid_type("Map", "`Object` isn't supported")
NoObjOrArr_SerializeTupleVariant_end(st) == invalid_type("Map", "`Object` isn't supported")
NoObjOrArr_SerializeStructVariant_serialize_field(st, key, value) ==
    invalid_type("Map", "Object unsupported")
NoObjOrArr_SerializeStructVariant_end(st) == invalid_type("Map", "Object unsupported")

\* value_no_obj_or_arr/ser.rs: impl SerializeTuple / SerializeTupleStruct
\* for SerializeVec forward to SerializeSeq.
NoObjOrArr_SerializeTuple_serialize_element(st, value) ==
    NoObjOrArr_SerializeSeq_serialize_element(st, value)
NoObjOrArr_SerializeTuple_end(st) == NoObjOrArr_SerializeSeq_end(st)
NoObjOrArr_SerializeTupleStruct_serialize_field(st, value) ==
    NoObjOrArr_SerializeSeq_serialize_element(st, value)
NoObjOrArr_SerializeTupleStruct_end(st) == NoObjOrArr_SerializeSeq_end(st)

\* value_no_obj/ser.rs: the same forwarding
NoObj_SerializeTuple_serialize_element(st, value) ==
    NoObj_SerializeSeq_serialize_element(st, value)
NoObj_SerializeTuple_end(st) == NoObj_SerializeSeq_end(st)
NoObj_SerializeTupleStruct_serialize_field(st, value) ==
    NoObj_SerializeSeq_serialize_element(st, value)
NoObj_SerializeTupleStruct_end(st) == NoObj_SerializeSeq_end(st)

\* The Scalar-only builder's map and struct serializers: the map contract
\* is the same for both shapes.
NoObjOrArr_SerializeMap_serialize_key(st, key) ==
    IF st.kind = "Map"
    THEN LET r == MapKey_serialize(key)
         IN IF r.ok THEN OkState(SerializeMap_Map(st.map, SomeKey(r.key))) ELSE r
    ELSE Abort("unreachable")
NoObjOrArr_SerializeMap_serialize_value(st, value) ==
    IF st.kind = "Map"
    THEN invalid_type("Map", "Object aren't supported")
    ELSE Abort("unreachable")
NoObjOrArr_SerializeMap_end(st) ==
    IF st.kind = "Map"
    THEN invalid_type("Map", "Object aren't supported")
    ELSE Abort("unreachable")
NoObjOrArr_SerializeMap_serialize_entry(st, key, value) ==
    LET r == NoObjOrArr_SerializeMap_serialize_key(st, key)
    IN IF r.ok THEN NoObjOrArr_SerializeMap_serialize_value(r.st, value) ELSE r
NoObjOrArr_SerializeStruct_serialize_field(st, key, value) ==
    CASE st.kind = "Map" -> NoObjOrArr_SerializeMap_serialize_entry(st, DStr(key), value)
      [] st.kind = "Number" ->
            IF key = NUMBER_TOKEN
            THEN LET r == NumberValueEmitter_serialize(value)
                 IN IF r.ok THEN OkState(SerializeMap_Number(SomeVal(r.v))) ELSE r
            ELSE invalid_number
      [] st.kind = "RawValue" ->
            IF key = RAW_TOKEN
            THEN LET r == RawValueEmitter_serialize("ValueNoObjOrArr", value)
                 IN IF r.ok THEN OkState(SerializeMap_RawValue(SomeVal(r.v))) ELSE r
            ELSE invalid_raw_value
NoObjOrArr_SerializeStruct_end(st) ==
    CASE st.kind = "Map" -> NoObjOrArr_SerializeMap_end(st)
      [] st.kind = "Number" ->
            IF st.out_value.some THEN Ok(st.out_value.v)
            ELSE Abort("number value was not emitted")
      [] st.kind = "RawValue" ->
            IF st.out_value.some THEN Ok(st.out_value.v)
            ELSE Abort("raw value was not emitted")

-----------------------------------------------------------------------------
(* Static dispatch: the serializer types of each builder.                  *)

SingleCallKinds ==
    IntKinds \cup FloatKinds \cup
    {"bool", "i128", "u128", "char", "str", "bytes", "unit", "none", "some",
     "unit_struct", "unit_variant", "newtype_struct", "newtype_variant"}
CompoundKinds == SeqKinds \cup {"tuple_variant", "map", "struct", "struct_variant"}

\* What the input feeds after the opening call.
Items(x) ==
    CASE x.k \in SeqKinds \cup {"tuple_variant"} -> x.xs
      [] x.k = "map" -> x.es
      [] x.k \in {"struct", "struct_variant"} -> x.fs

\* The opening call of a compound input.
Begin(t, x) ==
    IF t = "ValueNoObj"
    THEN CASE x.k = "seq" -> NoObj_serialize_seq(Len(x.xs))
           [] x.k = "tuple" -> NoObj_serialize_tuple(Len(x.xs))
           [] x.k = "tuple_struct" -> NoObj_serialize_tuple_struct(x.name, Len(x.xs))
           [] x.k = "tuple_variant" ->
                NoObj_serialize_tuple_variant(x.name, x.idx, x.variant, Len(x.xs))
           [] x.k = "map" -> NoObj_serialize_map(Len(x.es))
           [] x.k = "struct" -> NoObj_serialize_struct(x.name, Len(x.fs))
           [] x.k = "struct_variant" ->
                NoObj_serialize_struct_variant(x.name, x.idx, x.variant, Len(x.fs))
    ELSE CASE x.k = "seq" -> NoObjOrArr_serialize_seq(Len(x.xs))
           [] x.k = "tuple" -> NoObjOrArr_serialize_tuple(Len(x.xs))
           [] x.k = "tuple_struct" -> NoObjOrArr_serialize_tuple_struct(x.name, Len(x.xs))
           [] x.k = "tuple_variant" ->
                NoObjOrArr_serialize_tuple_variant(x.name, x.idx, x.variant, Len(x.xs))
           [] x.k = "map" -> NoObjOrArr_serialize_map(Len(x.es))
           [] x.k = "struct" -> NoObjOrArr_serialize_struct(x.name, Len(x.fs))
           [] x.k = "struct_variant" ->
                NoObjOrArr_serialize_struct_variant(x.name, x.idx, x.variant, Len(x.fs))

\* One element, entry or field fed to the compound serializer.
Feed(t, k, st, item) ==
    IF t = "ValueNoObj"
    THEN CASE k = "seq" -> NoObj_SerializeSeq_serialize_element(st, item)
           [] k = "tuple" -> NoObj_SerializeTuple_serialize_element(st, item)
           [] k = "tuple_struct" -> NoObj_SerializeTupleStruct_serialize_field(st, item)
           [] k = "tuple_variant" -> NoObj_SerializeTupleVariant_serialize_field(st, item)
           [] k = "map" -> NoObj_SerializeMap_serialize_entry(st, item.key, item.val)
           [] k = "struct" -> NoObj_SerializeStruct_serialize_field(st, item.key, item.val)
           [] k = "struct_variant" ->
                NoObj_SerializeStructVariant_serialize_field(st, item.key, item.val)
    ELSE CASE k = "seq" -> NoObjOrArr_SerializeSeq_serialize_element(st, item)
           [] k = "tuple" -> NoObjOrArr_SerializeTuple_serialize_element(st, item)
           [] k = "tuple_struct" -> NoObjOrArr_SerializeTupleStruct_serialize_field(st, item)
           [] k = "tuple_variant" -> NoObjOrArr_SerializeTupleVariant_serialize_field(st, item)
           [] k = "map" -> NoObjOrArr_SerializeMap_serialize_entry(st, item.key, item.val)
           [] k = "struct" -> NoObjOrArr_SerializeStruct_serialize_field(st, item.key, item.val)
           [] k = "struct_variant" ->
                NoObjOrArr_SerializeStructVariant_serialize_field(st, item.key, item.val)

\* The closing call.
End(t, k, st) ==
    IF t = "ValueNoObj"
    THEN CASE k = "seq" -> NoObj_SerializeSeq_end(st)
           [] k = "tuple" -> NoObj_SerializeTuple_end(st)
           [] k = "tuple_struct" -> NoObj_SerializeTupleStruct_end(st)
           [] k = "tuple_variant" -> NoObj_SerializeTupleVariant_end(st)
           [] k = "map" -> NoObj_SerializeMap_end(st)
           [] k = "struct" -> NoObj_SerializeStruct_end(st)
           [] k = "struct_variant" -> NoObj_SerializeStructVariant_end(st)
    ELSE CASE k = "seq" -> NoObjOrArr_SerializeSeq_end(st)
           [] k = "tuple" -> NoObjOrArr_SerializeTuple_end(st)
           [] k = "tuple_struct" -> NoObjOrArr_SerializeTupleStruct_end(st)
           [] k = "tuple_variant" -> NoObjOrArr_SerializeTupleVariant_end(st)
           [] k = "map" -> NoObjOrArr_SerializeMap_end(st)
           [] k = "struct" -> NoObjOrArr_SerializeStruct_end(st)
           [] k = "struct_variant" -> NoObjOrArr_SerializeStructVariant_end(st)

RECURSIVE Drive(_, _, _, _)
\* A compound input's Serialize impl after the opening call: every item in
\* order, returning at the first error (the ? operator), then the end.
Drive(t, k, st, items) ==
    IF items = <<>> THEN End(t, k, st)
    ELSE LET r == Feed(t, k, st, Head(items))
         IN IF r.ok THEN Drive(t, k, r.st, Tail(items)) ELSE r

\* serialize_some / serialize_newtype_struct: value.serialize(self)
serialize_some(t, value) == ToValue(t, value)
serialize_newtype_struct(t, name, value) == ToValue(t, value)

\* to_value(value): value.serialize(Serializer), the input calling the
\* method of its own kind.
ToValue(t, x) ==
    CASE x.k = "bool" -> serialize_bool(x.b)
      [] x.k = "i8" -> serialize_i8(x.n)
      [] x.k = "i16" -> serialize_i16(x.n)
      [] x.k = "i32" -> serialize_i32(x.n)
      [] x.k = "i64" -> serialize_i64(x.n)
      [] x.k = "i128" -> serialize_i128(x.n)
      [] x.k = "u8" -> serialize_u8(x.n)
      [] x.k = "u16" -> serialize_u16(x.n)
      [] x.k = "u32" -> serialize_u32(x.n)
      [] x.k = "u64" -> serialize_u64(x.n)
      [] x.k = "u128" -> serialize_u128(x.n)
      [] x.k = "f32" -> serialize_f32(x.f)
      [] x.k = "f64" -> serialize_f64(x.f)
      [] x.k = "char" -> serialize_char(x.s)
      [] x.k = "str" -> serialize_str(x.s)
      [] x.k = "bytes" ->
            IF t = "ValueNoObj" THEN NoObj_serialize_bytes(x.bs)
            ELSE NoObjOrArr_serialize_bytes(x.bs)
      [] x.k = "unit" -> serialize_unit
      [] x.k = "none" -> serialize_none
      [] x.k = "some" -> serialize_some(t, x.x)
      [] x.k = "unit_struct" -> serialize_unit_struct(x.name)
      [] x.k = "unit_variant" -> serialize_unit_variant(x.name, x.idx, x.variant)
      [] x.k = "newtype_struct" -> serialize_newtype_struct(t, x.name, x.x)
      [] x.k = "newtype_variant" ->
            IF t = "ValueNoObj"
            THEN NoObj_serialize_newtype_variant(x.name, x.idx, x.variant, x.x)
            ELSE NoObjOrArr_serialize_newtype_variant(x.name, x.idx, x.variant, x.x)
      [] x.k \in CompoundKinds ->
            LET b == Begin(t, x)
            IN IF b.ok THEN Drive(t, x.k, b.st, Items(x)) ELSE b

-----------------------------------------------------------------------------
(* impl Serialize for the value types: what a node feeds to a serializer.  *)

\* impl Serialize for Number: the integer or float it holds by its own
\* method; with arbitrary_precision, the one-field struct carrying its text.
Number_serialize(n) ==
    IF arbitrary_precision
    THEN DStruct(NUMBER_TOKEN, <<Entry(NUMBER_TOKEN, DStr(Number_to_string(n)))>>)
    ELSE CASE n.kind = "PosInt" -> DInt("u64", n.n)
           [] n.kind = "NegInt" -> DInt("i64", n.n)
           [] n.kind = "Float" -> DFloat("f64", n.f)

\* A Number narrowed to i32 (n.into() in scalar_value.rs): an integer keeps
\* its low bits, a float its integer part, saturated.
Number_into_i32(n) ==
    IF n.kind = "Float"
    THEN LET a == IF n.f.m < 0 THEN -((-n.f.m) \div 2) ELSE n.f.m \div 2
         IN IF a < IMin(W32) THEN IMin(W32) ELSE IF a > IMax(W32) THEN IMax(W32) ELSE a
    ELSE ((n.n - IMin(W32)) % (2 ^ W32)) + IMin(W32)

\* A faulty variant of impl Serialize for ScalarValue: a Number serialized
\* by its own method, at its native width.
ScalarValue_serialize_native(v) ==
    CASE v.tag = "Null" -> DNone
      [] v.tag = "Bool" -> DBool(v.b)
      [] v.tag = "Number" -> Number_serialize(v.num)
      [] v.tag = "String" -> DStr(v.s)

\* scalar_value/scalar_value.rs: impl Serialize for ScalarValue
ScalarValue_serialize(v) ==
    CASE v.tag = "Null" -> DNone
      [] v.tag = "Bool" -> DBool(v.b)
      [] v.tag = "Number" -> DInt("i32", Number_into_i32(v.num))
      [] v.tag = "String" -> DStr(v.s)

\* value_no_obj_or_arr/ser.rs: impl Serialize for ValueNoObjOrArr
ValueNoObjOrArr_serialize(v) ==
    CASE v.tag = "Null" -> DUnit
      [] v.tag = "Bool" -> DBool(v.b)
      [] v.tag = "Number" -> Number_serialize(v.num)
      [] v.tag = "String" -> DStr(v.s)

RECURSIVE ValueNoObj_serialize(_)
\* value_no_obj/ser.rs: impl Serialize for ValueNoObj; an Array is its Vec,
\* which feeds a sequence of its elements in stored order.
ValueNoObj_serialize(v) ==
    CASE v.tag = "Null" -> DUnit
      [] v.tag = "Bool" -> DBool(v.b)
      [] v.tag = "Number" -> Number_serialize(v.num)
      [] v.tag = "String" -> DStr(v.s)
      [] v.tag = "Array" -> DSeq([i \in 1..Len(v.xs) |-> ValueNoObj_serialize(v.xs[i])])

Value_serialize(t, v) ==
    CASE t = "ScalarValue" -> ScalarValue_serialize(v)
      [] t = "ValueNoObjOrArr" -> ValueNoObjOrArr_serialize(v)
      [] t = "ValueNoObj" -> ValueNoObj_serialize(v)

-----------------------------------------------------------------------------
(* Value-Backed Deserializer: impl Deserializer for ValueNoObjOrArr and    *)
(* for &ValueNoObjOrArr.  A method returns the visitor call it makes (a    *)
(* value of the data model) or the error it returns without calling.       *)

\* ValueNoObjOrArr::unexpected
unexpected(v) ==
    CASE v.tag = "Null" -> "Unit"
      [] v.tag = "Bool" -> "Bool(" \o bool_to_string(v.b) \o ")"
      [] v.tag = "Number" ->
            (CASE v.num.kind = "PosInt" -> "Unsigned("
               [] v.num.kind = "NegInt" -> "Signed("
               [] v.num.kind = "Float" -> "Float(") \o Number_to_string(v.num) \o ")"
      [] v.tag = "String" -> "Str(" \o v.s \o ")"

\* ValueNoObjOrArr::invalid_type(&visitor)
Value_invalid_type(v, exp) == invalid_type(unexpected(v), exp)

\* Number::deserialize_any: visit_u64, visit_i64 or visit_f64 by what the
\* number holds.
Number_deserialize_any(n) ==
    CASE n.kind = "PosInt" -> Ok(DInt("u64", n.n))
      [] n.kind = "NegInt" -> Ok(DInt("i64", n.n))
      [] n.kind = "Float" -> Ok(DFloat("f64", n.f))

IntWidth(kind) ==
    CASE kind \in {"i8", "u8"} -> W8
      [] kind \in {"i16", "u16"} -> W16
      [] kind \in {"i32", "u32"} -> W32
      [] kind \in {"i64", "u64"} -> W64
      [] kind \in {"i128", "u128"} -> W128
Signed(kind) == kind \in {"i8", "i16", "i32", "i64", "i128"}
InRange(kind, n) ==
    IF Signed(kind) THEN IMin(IntWidth(kind)) <= n /\ n <= IMax(IntWidth(kind))
    ELSE 0 <= n /\ n <= UMax(IntWidth(kind))

\* Number::deserialize_i8 .. deserialize_f64 with arbitrary_precision: the
\* number's text parsed as the requested kind, or invalid_number.
Number_deserialize_as(n, kind) ==
    LET p == Number_from_str(Number_to_string(n))
    IN IF ~p.ok THEN invalid_number
       ELSE IF kind \in FloatKinds
       THEN Ok(DFloat(kind, IF p.v.kind = "Float" THEN p.v.f ELSE Finite(2 * p.v.n)))
       ELSE IF p.v.kind # "Float" /\ InRange(kind, p.v.n) THEN Ok(DInt(kind, p.v.n))
       ELSE invalid_number

\* deserialize_any, owned: String(v) => visitor.visit_string(v)
deserialize_any(v) ==
    CASE v.tag = "Null" -> Ok(DUnit)
      [] v.tag = "Bool" -> Ok(DBool(v.b))
      [] v.tag = "Number" -> Number_deserialize_any(v.num)
      [] v.tag = "String" -> Ok(DString(v.s))

\* A faulty variant of the borrowed deserialize_any: a String handed over
\* as an owned string.
ref_deserialize_any_owned(v) == deserialize_any(v)
\* deserialize_any, borrowed: String(v) => visitor.visit_borrowed_str(v)
ref_deserialize_any(v) ==
    CASE v.tag = "Null" -> Ok(DUnit)
      [] v.tag = "Bool" -> Ok(DBool(v.b))
      [] v.tag = "Number" -> Number_deserialize_any(v.num)
      [] v.tag = "String" -> Ok(DStr(v.s))

\* A faulty variant of deserialize_number: with arbitrary precision a node
\* that is not a Number refused as without it.
deserialize_number_strict(v, kind, exp) ==
    IF v.tag # "Number" THEN Value_invalid_type(v, exp)
    ELSE IF arbitrary_precision THEN Number_deserialize_as(v.num, kind)
    ELSE Number_deserialize_any(v.num)
\* macro deserialize_number (owned)
deserialize_number(v, kind, exp) ==
    IF ~arbitrary_precision
    THEN IF v.tag = "Number" THEN Number_deserialize_any(v.num)
         ELSE Value_invalid_type(v, exp)
    ELSE IF v.tag = "Number" THEN Number_deserialize_as(v.num, kind)
         ELSE deserialize_any(v)

\* macro deserialize_value_ref_number (borrowed)
deserialize_value_ref_number(v, kind, exp) ==
    IF ~arbitrary_precision
    THEN IF v.tag = "Number" THEN Number_deserialize_any(v.num)
         ELSE Value_invalid_type(v, exp)
    ELSE IF v.tag = "Number" THEN Number_deserialize_as(v.num, kind)
         ELSE ref_deserialize_any(v)

deserialize_bool(v, exp) ==
    IF v.tag = "Bool" THEN Ok(DBool(v.b)) ELSE Value_invalid_type(v, exp)
ref_deserialize_bool(v, exp) ==
    IF v.tag = "Bool" THEN Ok(DBool(v.b)) ELSE Value_invalid_type(v, exp)

\* A faulty variant of deserialize_string: every node refused.
deserialize_string_refusing(v, exp) == Value_invalid_type(v, exp)
deserialize_string(v, exp) ==
    IF v.tag = "String" THEN Ok(DString(v.s)) ELSE Value_invalid_type(v, exp)
deserialize_str(v, exp) == deserialize_string(v, exp)
ref_deserialize_str(v, exp) ==
    IF v.tag = "String" THEN Ok(DStr(v.s)) ELSE Value_invalid_type(v, exp)
ref_deserialize_string(v, exp) == ref_deserialize_str(v, exp)

\* deserialize_enum: visitor.visit_enum(EnumDeserializer {variant, value: None})
\* for a String, an error for every other node.
EnumDeserializer(variant, value) == [k |-> "enum", variant |-> variant, value |-> value]
deserialize_enum(v) ==
    IF v.tag = "String" THEN Ok(EnumDeserializer(v.s, None))
    ELSE invalid_type(unexpected(v), "string or map")
ref_deserialize_enum(v) ==
    IF v.tag = "String" THEN Ok(EnumDeserializer(v.s, None))
    ELSE invalid_type(unexpected(v), "string or map")

\* What a visitor is handed besides primitives: the node itself as the
\* deserializer of an option's or a newtype struct's content, or the raw
\* text as the one entry of OwnedRawDeserializer's map.
SomeNode(v) == [k |-> "some", node |-> v]
NewtypeNode(v) == [k |-> "newtype_struct", node |-> v]
RawMap(text) == [k |-> "raw_map", text |-> text]

\* A faulty variant of ref_deserialize_option: Null is handed over as the
\* content of a present option.
ref_deserialize_option_always_some(v) == Ok(SomeNode(v))

\* deserialize_option: Null => visit_none(), _ => visit_some(self)
deserialize_option(v) == IF v.tag = "Null" THEN Ok(DNone) ELSE Ok(SomeNode(v))
ref_deserialize_option(v) == IF v.tag = "Null" THEN Ok(DNone) ELSE Ok(SomeNode(v))

\* The text of a string between quotes, its quotes escaped.
escape_str(s) ==
    "\"" \o (CASE s = "\"a\"" -> "\\\"a\\\""
              [] s = "{\"a\":1}" -> "{\\\"a\\\":1}"
              [] OTHER -> s) \o "\""
\* impl Display for ValueNoObjOrArr: the node as wire text
Value_to_string(v) ==
    CASE v.tag = "Null" -> "null"
      [] v.tag = "Bool" -> bool_to_string(v.b)
      [] v.tag = "Number" -> Number_to_string(v.num)
      [] v.tag = "String" -> escape_str(v.s)

\* A faulty variant of deserialize_newtype_struct: the name is not looked at.
deserialize_newtype_struct_any_name(v, name) == Ok(NewtypeNode(v))

\* deserialize_newtype_struct: with raw values and the raw-value token as
\* name, visit_map(OwnedRawDeserializer {raw_value: Some(self.to_string())});
\* otherwise visit_newtype_struct(self)
deserialize_newtype_struct(v, name) ==
    IF raw_value /\ name = RAW_TOKEN THEN Ok(RawMap(Value_to_string(v)))
    ELSE Ok(NewtypeNode(v))
ref_deserialize_newtype_struct(v, name) ==
    IF raw_value /\ name = RAW_TOKEN THEN Ok(RawMap(Value_to_string(v)))
    ELSE Ok(NewtypeNode(v))

\* A faulty variant of the borrowed deserialize_bytes: every node refused.
ref_deserialize_bytes_refusing(v, exp) == Value_invalid_type(v, exp)

\* deserialize_byte_buf (owned; deserialize_bytes forwards to it) and
\* deserialize_bytes (borrowed; deserialize_byte_buf forwards to it)
deserialize_byte_buf(v, exp) ==
    IF v.tag = "String" THEN Ok(DString(v.s)) ELSE Value_invalid_type(v, exp)
ref_deserialize_bytes(v, exp) ==
    IF v.tag = "String" THEN Ok(DStr(v.s)) ELSE Value_invalid_type(v, exp)

\* A faulty variant of deserialize_unit: every node is taken for a unit.
deserialize_unit_lenient(v, exp) == Ok(DUnit)

\* deserialize_unit (deserialize_unit_struct forwards to it)
deserialize_unit(v, exp) ==
    IF v.tag = "Null" THEN Ok(DUnit) ELSE Value_invalid_type(v, exp)
ref_deserialize_unit(v, exp) ==
    IF v.tag = "Null" THEN Ok(DUnit) ELSE Value_invalid_type(v, exp)

\* A faulty variant of deserialize_map: a Null node is taken for an empty
\* map and the visitor is called.
deserialize_map_null_as_empty(v, exp) ==
    IF v.tag = "Null" THEN Ok(DUnit) ELSE Value_invalid_type(v, exp)

\* deserialize_seq (deserialize_tuple and deserialize_tuple_struct forward
\* to it), deserialize_map, deserialize_struct: Err(self.invalid_type(&visitor))
deserialize_seq(v, exp) == Value_invalid_type(v, exp)
ref_deserialize_seq(v, exp) == Value_invalid_type(v, exp)
deserialize_map(v, exp) == Value_invalid_type(v, exp)
ref_deserialize_map(v, exp) == Value_invalid_type(v, exp)
deserialize_struct(v, exp) == Value_invalid_type(v, exp)
ref_deserialize_struct(v, exp) == Value_invalid_type(v, exp)

\* deserialize_ignored_any: visitor.visit_unit(), whatever the node
deserialize_ignored_any(v) == Ok(DUnit)
ref_deserialize_ignored_any(v) == Ok(DUnit)

\* VariantAccess::unit_variant for VariantDeserializer / VariantRefDeserializer:
\* with a payload, the payload must deserialize as unit.
unit_variant(value) ==
    IF value.some
    THEN IF value.v.tag = "Null" THEN OkUnit ELSE Value_invalid_type(value.v, "unit")
    ELSE OkUnit

\* A faulty variant of newtype_variant_seed: an absent payload is
\* deserialized as Null instead of being refused.
newtype_variant_seed_null(value) ==
    IF value.some THEN Ok(NewtypeNode(value.v))
    ELSE Ok(NewtypeNode(Null))

\* VariantAccess::newtype_variant_seed, tuple_variant, struct_variant for
\* VariantDeserializer / VariantRefDeserializer.  A payload handed to the
\* newtype variant's seed is reported as the node it would deserialize.
newtype_variant_seed(value) ==
    IF value.some THEN Ok(NewtypeNode(value.v))
    ELSE invalid_type("UnitVariant", "newtype variant")
tuple_variant(value) ==
    IF value.some THEN invalid_type(unexpected(value.v), "tuple variant")
    ELSE invalid_type("UnitVariant", "tuple variant")
struct_variant(value) ==
    IF value.some THEN invalid_type(unexpected(value.v), "struct variant")
    ELSE invalid_type("UnitVariant", "struct variant")

-----------------------------------------------------------------------------
(* The consumers: the visitors of the types deserialized from a node.      *)

\* The unit variants of the enum a consumer asks for.
Variants == <<"Foo", "Bar">>

\* The kinds a numeric request names: deserialize_i8 .. deserialize_f64.
AllIntKinds == IntKinds \cup {"i128", "u128"}
NumericKinds == AllIntKinds \cup FloatKinds

\* The callback a visitor without visit_string or visit_borrowed_str sees:
\* serde's provided methods forward both to visit_str.
visited_as(call) == IF call.k = "string" THEN "str" ELSE call.k

\* serde's visitors for bool, the integer and float types and String.
PrimitiveVisitor(kind, call) ==
    CASE kind = "bool" ->
            IF call.k = "bool" THEN Ok(DBool(call.b)) ELSE invalid_type(visited_as(call), "a boolean")
      [] kind \in AllIntKinds ->
            IF call.k \in AllIntKinds
            THEN IF InRange(kind, call.n) THEN Ok(DInt(kind, call.n))
                 ELSE invalid_value(call.k, kind)
            ELSE invalid_type(visited_as(call), kind)
      [] kind \in FloatKinds ->
            IF call.k \in FloatKinds THEN Ok(DFloat(kind, call.f))
            ELSE IF call.k \in AllIntKinds THEN Ok(DFloat(kind, Finite(2 * call.n)))
            ELSE invalid_type(visited_as(call), kind)
      [] kind = "string" ->
            IF call.k \in {"str", "string"} THEN Ok(DStr(call.s))
            ELSE invalid_type(visited_as(call), "a string")

\* EnumAccess::variant_seed for EnumDeserializer / EnumRefDeserializer: the
\* variant text offered to the consumer's identifier seed, which knows the
\* names in Variants.
variant_seed(enum) ==
    IF \E i \in 1..Len(Variants) : Variants[i] = enum.variant
    THEN Ok([idx |-> (CHOOSE i \in 1..Len(Variants) : Variants[i] = enum.variant) - 1,
             access |-> enum.value])
    ELSE Err("UnknownVariant", enum.variant, "")

\* A derived Deserialize of an enum of unit variants: visit_enum identifies
\* the variant, then asks for its (absent) payload with unit_variant.
EnumVisitor(name, call) ==
    IF call.k = "enum"
    THEN LET s == variant_seed(call)
         IN IF ~s.ok THEN s
            ELSE LET u == unit_variant(s.v.access)
                 IN IF u.ok THEN Ok(DUnitVariant(name, s.v.idx, Variants[s.v.idx + 1]))
                    ELSE u
    ELSE invalid_type(call.k, "enum " \o name)

\* A derived Deserialize of an enum whose variants all carry a payload of
\* one kind (newtype, tuple or struct): visit_enum identifies the variant,
\* then asks the variant access for the payload.
PayloadEnumVisitor(kind, name, call) ==
    IF call.k = "enum"
    THEN LET s == variant_seed(call)
         IN IF ~s.ok THEN s
            ELSE CASE kind = "newtype" -> newtype_variant_seed(s.v.access)
                   [] kind = "tuple" -> tuple_variant(s.v.access)
                   [] kind = "struct" -> struct_variant(s.v.access)
    ELSE invalid_type(call.k, "enum " \o name)

\* A visitor that accepts every call and returns what it was handed.
RecordingVisitor(call) == Ok(call)

\* The requests for an enum, by the kind of the consumer's variants.
EnumRequests == {"enum", "enum_newtype", "enum_tuple", "enum_struct"}
StringRequests == {"char", "str", "string", "identifier"}
SeqRequests == {"seq", "tuple", "tuple_struct"}
Requests ==
    {"any", "bool", "bytes", "byte_buf", "option", "unit", "unit_struct",
     "newtype_struct", "newtype_struct_raw", "map", "struct", "ignored_any"}
    \cup NumericKinds \cup StringRequests \cup SeqRequests \cup EnumRequests

\* The deserializer method a request of a kind calls on a node.
Request(v, req, owned) ==
    CASE req = "any" -> IF owned THEN deserialize_any(v) ELSE ref_deserialize_any(v)
      [] req = "bool" ->
            IF owned THEN deserialize_bool(v, "a boolean")
            ELSE ref_deserialize_bool(v, "a boolean")
      [] req \in NumericKinds ->
            \* the borrowed deserialize_i128 / deserialize_u128 expand the
            \* owned macro, whose text is the same, inside the borrowed impl
            IF owned THEN deserialize_number(v, req, req)
            ELSE deserialize_value_ref_number(v, req, req)
      [] req = "string" ->
            IF owned THEN deserialize_string(v, "a string")
            ELSE ref_deserialize_string(v, "a string")
      [] req \in {"char", "str", "identifier"} ->
            \* owned: self.deserialize_string; borrowed: self.deserialize_str
            IF owned THEN deserialize_string(v, req) ELSE ref_deserialize_str(v, req)
      [] req \in {"bytes", "byte_buf"} ->
            IF owned THEN deserialize_byte_buf(v, req) ELSE ref_deserialize_bytes(v, req)
      [] req = "option" ->
            IF owned THEN deserialize_option(v) ELSE ref_deserialize_option(v)
      [] req \in {"unit", "unit_struct"} ->
            IF owned THEN deserialize_unit(v, req) ELSE ref_deserialize_unit(v, req)
      [] req = "newtype_struct" ->
            IF owned THEN deserialize_newtype_struct(v, "S")
            ELSE ref_deserialize_newtype_struct(v, "S")
      [] req = "newtype_struct_raw" ->
            IF owned THEN deserialize_newtype_struct(v, RAW_TOKEN)
            ELSE ref_deserialize_newtype_struct(v, RAW_TOKEN)
      [] req \in SeqRequests ->
            IF owned THEN deserialize_seq(v, req) ELSE ref_deserialize_seq(v, req)
      [] req = "map" ->
            IF owned THEN deserialize_map(v, req) ELSE ref_deserialize_map(v, req)
      [] req = "struct" ->
            IF owned THEN deserialize_struct(v, req) ELSE ref_deserialize_struct(v, req)
      [] req = "ignored_any" ->
            IF owned THEN deserialize_ignored_any(v) ELSE ref_deserialize_ignored_any(v)
      [] req \in EnumRequests ->
            IF owned THEN deserialize_enum(v) ELSE ref_deserialize_enum(v)

\* The consumer of a request: the node's own type for "any" (from_value
\* into ValueNoObjOrArr), the primitive's visitor, or the enum's.
Consume(req, call) ==
    CASE req = "any" -> Deserialize("ValueNoObjOrArr", call)
      [] req = "enum" -> EnumVisitor("E", call)
      [] req = "enum_newtype" -> PayloadEnumVisitor("newtype", "E", call)
      [] req = "enum_tuple" -> PayloadEnumVisitor("tuple", "E", call)
      [] req = "enum_struct" -> PayloadEnumVisitor("struct", "E", call)
      [] req \in {"bool", "string"} \cup NumericKinds -> PrimitiveVisitor(req, call)
      [] OTHER -> RecordingVisitor(call)

\* T::deserialize(node) / T::deserialize(&node)
FromValue(v, req, owned) ==
    LET c == Request(v, req, owned)
    IN IF c.ok THEN Consume(req, c.v) ELSE c

-----------------------------------------------------------------------------
(* The inputs of the model.                                                *)

SeqsUpTo(S, n) == UNION {[1..k -> S] : k \in 0..n}

Strs == {"", "a", "Foo"}
StructNames == {"S", NUMBER_TOKEN, RAW_TOKEN}
Texts == {"1", "-1", "1.5", "x", "null", "\"a\"", "[1,2,3]", "{}", "{\"a\":1}"}

IntInputs ==
    UNION {{DInt(kind, n) : n \in
              (IF Signed(kind) THEN IMin(IntWidth(kind)) ELSE 0)
              ..(IF Signed(kind) THEN IMax(IntWidth(kind)) ELSE UMax(IntWidth(kind)))}
           : kind \in IntKinds \cup {"i128", "u128"}}

LeafInputs ==
    {DBool(b) : b \in BOOLEAN} \cup IntInputs
    \cup {DFloat(kind, f) : kind \in FloatKinds, f \in Floats}
    \cup {DChar("a")} \cup {DStr(t) : t \in Strs \cup Texts}
    \cup {DBytes(bs) : bs \in SeqsUpTo(0..UMax(W8), MaxLen)}
    \cup {DUnit, DNone, DUnitStruct("S")}
    \cup {DUnitVariant(name, idx, variant) :
            name \in {"E", "F"}, idx \in 0..1, variant \in {"Foo", "Bar"}}

\* The sequence [1, "a", [2, 3]].
Example ==
    DSeq(<<DInt("i32", 1), DStr("a"), DSeq(<<DInt("i32", 2), DInt("i32", 3)>>)>>)

\* Elements of the sequences fed: values that convert, values that do not,
\* and nested sequences.
Elems ==
    {DBool(TRUE), DInt("i64", -1), DInt("u64", 2), DStr("a"), DFloat("f64", NaN),
     DInt("i128", IMin(W128)), DMap(<<>>), DSeq(<<DInt("u8", 0), DStr("")>>),
     DSeq(<<DMap(<<>>)>>)}
FewElems == {DInt("i64", 1), DStr("a"), DMap(<<>>), DInt("u128", UMax(W128))}

\* Keys of every kind: each integer width at its ends and at 0 and -1, every
\* float, the string-like kinds, and one key of each compound or empty kind.
KeyInts ==
    {x \in IntInputs :
        x.n \in {0, -1, IMin(IntWidth(x.k)), IMax(IntWidth(x.k)), UMax(IntWidth(x.k))}}
MapKeys ==
    {DStr("a"), DStr(""), DChar("a"), DBool(TRUE), DBool(FALSE)}
    \cup KeyInts
    \cup {DFloat(kind, f) : kind \in FloatKinds, f \in Floats}
    \cup {DUnitVariant("E", 0, "Foo"), DUnitVariant("E", 1, "Bar"),
          DNewtypeStruct("K", DStr("k")), DNewtypeStruct("K", DInt("i64", -1)),
          DNewtypeStruct("K", DUnit), DNewtypeStruct("K", DFloat("f64", PosInf)),
          DNewtypeStruct("K", DNewtypeStruct("K", DBool(TRUE)))}
    \cup {DBytes(<<>>), DUnit, DUnitStruct("S"), DNone, DSome(DStr("a")),
          DSeq(<<>>), DTuple(<<>>), DTupleStruct("S", <<>>), DMap(<<>>),
          DStruct("S", <<>>), DNewtypeVariant("E", 0, "Foo", DStr("a")),
          DTupleVariant("E", 0, "Foo", <<>>), DStructVariant("E", 0, "Foo", <<>>)}
MapEntries == {Entry(key, DInt("u8", 1)) : key \in MapKeys}
FewEntries == {Entry(DStr("a"), DInt("u8", 1)), Entry(DUnit, DUnit)}

\* A value of every protocol call an emitter can receive.
EmitterCalls ==
    {DStr(text) : text \in Texts}
    \cup {DBool(TRUE), DChar("a"), DBytes(<<>>), DNone, DSome(DStr("1")), DUnit,
          DUnitStruct("S"), DUnitVariant("E", 0, "Foo"),
          DNewtypeVariant("E", 0, "Foo", DStr("1")),
          DTupleVariant("E", 0, "Foo", <<>>), DStructVariant("E", 0, "Foo", <<>>),
          DNewtypeStruct("K", DStr("1")), DSeq(<<>>), DTuple(<<>>),
          DTupleStruct("S", <<>>), DMap(<<>>), DStruct("S", <<>>)}
    \cup {DInt(kind, 1) : kind \in IntKinds \cup {"i128", "u128"}}
    \cup {DFloat(kind, Finite(3)) : kind \in FloatKinds}
StructFields ==
    {Entry(key, val) : key \in {NUMBER_TOKEN, RAW_TOKEN}, val \in EmitterCalls}
    \cup {Entry("a", val) : val \in {DStr("1"), DStr("[1,2,3]"), DInt("u8", 1)}}
FewFields == {Entry("a", DInt("u8", 1)), Entry(NUMBER_TOKEN, DStr("1")),
              Entry(RAW_TOKEN, DStr("[1,2,3]")), Entry(RAW_TOKEN, DStr("x"))}

\* A first item from the full set, the following ones from the small one.
ItemsUpTo(First, Others, n) ==
    {<<>>} \cup {<<f>> \o r : f \in First, r \in SeqsUpTo(Others, n - 1)}

CompoundInputs ==
    {DSeq(xs) : xs \in ItemsUpTo(Elems, Elems, MaxLen)}
    \cup {DTuple(xs) : xs \in ItemsUpTo(FewElems, FewElems, MaxLen)}
    \cup {DTupleStruct("T", xs) : xs \in ItemsUpTo(FewElems, FewElems, MaxLen)}
    \cup {DTupleVariant("E", 1, "Bar", xs) : xs \in ItemsUpTo(FewElems, FewElems, MaxLen)}
    \cup {DMap(es) : es \in ItemsUpTo(MapEntries, FewEntries, MaxLen)}
    \cup {DStruct(name, fs) : name \in StructNames,
                              fs \in ItemsUpTo(StructFields, FewFields, MaxLen)}
    \cup {DStructVariant("E", 1, "Bar", fs) :
            fs \in ItemsUpTo(FewFields, FewFields, MaxLen)}
    \cup {DSome(x) : x \in Elems} \cup {DNewtypeStruct("N", x) : x \in Elems}
    \cup {DNewtypeVariant("E", 1, "Bar", x) : x \in Elems}
    \cup {Example}

SerInputs == LeafInputs \cup CompoundInputs

\* What a self-describing source may hold.
SourceLeaves ==
    {DBool(b) : b \in BOOLEAN}
    \cup {DInt("i64", n) : n \in I64_MIN..I64_MAX}
    \cup {DInt("u64", n) : n \in 0..U64_MAX}
    \cup {DFloat("f64", f) : f \in Floats}
    \cup {DStr(t) : t \in Strs} \cup {DString("a"), DUnit, DNone, DBytes(<<0>>)}
SourceKeys ==
    {DStr("a"), DString("b"), DStr(NUMBER_TOKEN), DString(NUMBER_TOKEN),
     DStr(RAW_TOKEN), DString(RAW_TOKEN), DInt("i64", 1)}
SourceEntries ==
    {Entry(key, val) : key \in SourceKeys,
                       val \in {DStr("1"), DStr("x"), DStr("[1,2,3]"), DStr("{}"),
                                DStr("{\"a\":1}"), DStr("\"a\""), DInt("u64", 1)}}
FewSourceEntries == {Entry(DStr("a"), DInt("u64", 2)), Entry(DInt("i64", 1), DUnit)}

DeSources ==
    SourceLeaves
    \cup {DSome(x) : x \in {DBool(TRUE), DMap(<<>>), DMap(<<Entry(DStr("a"), DUnit)>>)}}
    \cup {DSeq(xs) : xs \in SeqsUpTo({DInt("u64", 1), DMap(<<>>)}, MaxLen)}
    \cup {DMap(es) : es \in ItemsUpTo(SourceEntries, FewSourceEntries, MaxLen)}

\* The legal Value Nodes of each type.
Numbers ==
    {PosInt(n) : n \in 0..U64_MAX} \cup {NegInt(n) : n \in I64_MIN..(-1)}
    \cup {Float(Finite(m)) : m \in HalfRange}
ScalarNodes ==
    {Null} \cup {Bool(b) : b \in BOOLEAN} \cup {Number(n) : n \in Numbers}
    \cup {String(t) : t \in Strs}
ArrayElems ==
    {Null, Number(PosInt(1)), Number(NegInt(-1)), String("a"), Array(<<>>),
     Array(<<Number(PosInt(2)), Number(Float(Finite(1)))>>)}
ArrayNodes == {Array(xs) : xs \in SeqsUpTo(ArrayElems, MaxLen)}

NoOrigin == [t |-> "none"]
Origins ==
    {[t |-> t, v |-> v] : t \in {"ScalarValue", "ValueNoObjOrArr"}, v \in ScalarNodes}
    \cup {[t |-> "ValueNoObj", v |-> v] : v \in ScalarNodes \cup ArrayNodes}

\* The builder whose Value Node has the shape of a type's.
BuilderOf(t) == IF t = "ValueNoObj" THEN "ValueNoObj" ELSE "ValueNoObjOrArr"

-----------------------------------------------------------------------------
(* The state machine.                                                      *)

Init ==
    /\ arbitrary_precision \in BOOLEAN
    /\ raw_value \in BOOLEAN
    /\ \/ /\ mode = "ser"
          /\ origin = NoOrigin
          /\ ty \in BuilderTypes
          /\ input \in SerInputs
       \/ /\ mode = "ser"
          /\ origin \in Origins
          /\ ty = BuilderOf(origin.t)
          /\ input = Value_serialize(origin.t, origin.v)
       \/ /\ mode = "de"
          /\ origin = NoOrigin
          /\ ty \in ValueTypes
          /\ input \in DeSources
    /\ pc = "start"
    /\ ser = NoSerializer
    /\ rest = <<>>
    /\ result = NoResult
    /\ back = NoResult

fixed == <<arbitrary_precision, raw_value, ty, mode, input, origin>>

\* The opening call returned r.
Opened(r) ==
    IF r.ok
    THEN /\ ser' = r.st
         /\ rest' = Items(input)
         /\ pc' = "feed"
         /\ UNCHANGED result
    ELSE /\ result' = r
         /\ pc' = "done"
         /\ UNCHANGED <<ser, rest>>

\* A call feeding the head of rest returned r.
Fed(r) ==
    IF r.ok
    THEN /\ ser' = r.st
         /\ rest' = Tail(rest)
         /\ UNCHANGED <<pc, result>>
    ELSE /\ result' = r
         /\ pc' = "done"
         /\ UNCHANGED <<ser, rest>>

\* An input of a single protocol call: a primitive, a string, bytes, unit,
\* an option, a unit or newtype struct, a unit or newtype variant.
Serialize ==
    /\ mode = "ser" /\ pc = "start"
    /\ input.k \in SingleCallKinds
    /\ result' = ToValue(ty, input)
    /\ pc' = "done"
    /\ UNCHANGED <<fixed, ser, rest, back>>

\* serialize_seq / serialize_tuple / serialize_tuple_struct
BeginSeq ==
    /\ mode = "ser" /\ pc = "start"
    /\ input.k \in SeqKinds
    /\ Opened(Begin(ty, input))
    /\ UNCHANGED <<fixed, back>>

\* serialize_tuple_variant
BeginTupleVariant ==
    /\ mode = "ser" /\ pc = "start"
    /\ input.k = "tuple_variant"
    /\ Opened(Begin(ty, input))
    /\ UNCHANGED <<fixed, back>>

\* serialize_map
BeginMap ==
    /\ mode = "ser" /\ pc = "start"
    /\ input.k = "map"
    /\ Opened(Begin(ty, input))
    /\ UNCHANGED <<fixed, back>>

\* serialize_struct
BeginStruct ==
    /\ mode = "ser" /\ pc = "start"
    /\ input.k = "struct"
    /\ Opened(Begin(ty, input))
    /\ UNCHANGED <<fixed, back>>

\* serialize_struct_variant
BeginStructVariant ==
    /\ mode = "ser" /\ pc = "start"
    /\ input.k = "struct_variant"
    /\ Opened(Begin(ty, input))
    /\ UNCHANGED <<fixed, back>>

\* SerializeSeq::serialize_element, SerializeTuple::serialize_element,
\* SerializeTupleStruct::serialize_field
SerializeElement ==
    /\ pc = "feed" /\ input.k \in SeqKinds /\ rest # <<>>
    /\ Fed(Feed(ty, input.k, ser, Head(rest)))
    /\ UNCHANGED <<fixed, back>>

\* SerializeTupleVariant::serialize_field
SerializeTupleVariantField ==
    /\ pc = "feed" /\ input.k = "tuple_variant" /\ rest # <<>>
    /\ Fed(Feed(ty, input.k, ser, Head(rest)))
    /\ UNCHANGED <<fixed, back>>

\* SerializeMap::serialize_key (the first half of serialize_entry)
SerializeKey ==
    /\ pc = "feed" /\ input.k = "map" /\ rest # <<>>
    /\ LET r == IF ty = "ValueNoObj"
                THEN NoObj_SerializeMap_serialize_key(ser, Head(rest).key)
                ELSE NoObjOrArr_SerializeMap_serialize_key(ser, Head(rest).key)
       IN IF r.ok
          THEN /\ ser' = r.st
               /\ pc' = "value"
               /\ UNCHANGED <<rest, result>>
          ELSE /\ result' = r
               /\ pc' = "done"
               /\ UNCHANGED <<ser, rest>>
    /\ UNCHANGED <<fixed, back>>

\* SerializeMap::serialize_value (the second half of serialize_entry)
SerializeValue ==
    /\ pc = "value"
    /\ LET r == IF ty = "ValueNoObj"
                THEN NoObj_SerializeMap_serialize_value(ser, Head(rest).val)
                ELSE NoObjOrArr_SerializeMap_serialize_value(ser, Head(rest).val)
       IN IF r.ok
          THEN /\ rest' = Tail(rest)
               /\ pc' = "feed"
               /\ UNCHANGED <<ser, result>>
          ELSE /\ result' = r
               /\ pc' = "done"
               /\ UNCHANGED <<ser, rest>>
    /\ UNCHANGED <<fixed, back>>

\* SerializeStruct::serialize_field
SerializeStructField ==
    /\ pc = "feed" /\ input.k = "struct" /\ rest # <<>>
    /\ Fed(Feed(ty, input.k, ser, Head(rest)))
    /\ UNCHANGED <<fixed, back>>

\* SerializeStructVariant::serialize_field
SerializeStructVariantField ==
    /\ pc = "feed" /\ input.k = "struct_variant" /\ rest # <<>>
    /\ Fed(Feed(ty, input.k, ser, Head(rest)))
    /\ UNCHANGED <<fixed, back>>

\* The end() of the compound serializer, once every item is fed.
SerializeEnd ==
    /\ pc = "feed" /\ rest = <<>>
    /\ result' = End(ty, input.k, ser)
    /\ pc' = "done"
    /\ UNCHANGED <<fixed, ser, rest, back>>

\* T::deserialize(source) for a value type T
DeserializeValue ==
    /\ mode = "de" /\ pc = "start"
    /\ result' = Deserialize(ty, input)
    /\ pc' = "done"
    /\ UNCHANGED <<fixed, ser, rest, back>>

\* The built Scalar-only node deserialized back, owned or borrowed, by a
\* consumer of some kind.
DeserializeBack ==
    /\ mode = "ser" /\ pc = "done"
    /\ ty = "ValueNoObjOrArr"
    /\ result.ok
    /\ \E req \in Requests, owned \in BOOLEAN :
          back' = [req |-> req, owned |-> owned,
                   call |-> Request(result.v, req, owned),
                   res |-> FromValue(result.v, req, owned)]
    /\ pc' = "back"
    /\ UNCHANGED <<fixed, ser, rest, result>>

Next ==
    \/ Serialize
    \/ BeginSeq
    \/ BeginTupleVariant
    \/ BeginMap
    \/ BeginStruct
    \/ BeginStructVariant
    \/ SerializeElement
    \/ SerializeTupleVariantField
    \/ SerializeKey
    \/ SerializeValue
    \/ SerializeStructField
    \/ SerializeStructVariantField
    \/ SerializeEnd
    \/ DeserializeValue
    \/ DeserializeBack

Spec == Init /\ [][Next]_vars

-----------------------------------------------------------------------------
(* Properties.                                                             *)

\* The call sequence has returned a Value Node.
Yielded == "ok" \in DOMAIN result /\ result.ok
\* The call sequence has returned.
Returned == pc \in {"done", "back"}
\* An invalid-type error naming Object as the unsupported shape.
NamesObject(r) ==
    /\ ~r.ok
    /\ r.code = "InvalidType"
    /\ r.exp \in {"`Object` isn't supported", "Object aren't supported",
                  "Object unsupported"}

\* The input is a map or a struct whose name is not a reserved one.
MapOrOrdinaryStruct ==
    /\ mode = "ser"
    /\ \/ input.k = "map"
       \/ input.k = "struct" /\ input.name \notin {NUMBER_TOKEN, RAW_TOKEN}
\* The input is a map whose first key the Map-Key Encoder rejects.
FirstKeyRejected ==
    /\ input.k = "map" /\ input.es # <<>>
    /\ ~MapKey_serialize(input.es[1].key).ok

C2_SeqFailsImmediately ==
    (mode = "ser" /\ ty = "ValueNoObjOrArr" /\ input.k \in SeqKinds /\ pc # "start")
        => /\ pc = "done"
           /\ ~Yielded
           /\ ser = NoSerializer

\* C3, as stated: deserializing into ScalarValue or ValueNoObjOrArr yields
\* Null, Bool, Number or String only, and a map that is empty or whose first
\* key is an ordinary string fails with an invalid-type error.
C3_NeverObject ==
    (mode = "de" /\ ty \in {"ScalarValue", "ValueNoObjOrArr"} /\ Returned) =>
        /\ Yielded => result.v.tag \in {"Null", "Bool", "Number", "String"}
        /\ (/\ input.k = "map"
            /\ \/ input.es = <<>>
               \/ /\ input.es[1].key.k \in {"str", "string"}
                  /\ input.es[1].key.s \notin {NUMBER_TOKEN, RAW_TOKEN})
              => ~result.ok /\ result.code = "InvalidType"

\* C4, as stated: for both shapes a newtype, tuple or struct enum variant
\* never yields a Value Node, and its conversion ends in an error.
C4_VariantsFail ==
    (mode = "ser" /\ input.k \in {"newtype_variant", "tuple_variant", "struct_variant"})
        => /\ ~Yielded
           /\ Returned => ~result.ok

\* C5, as stated: a legal node of a type, serialized by its own Serialize
\* impl into the builder of its shape, comes back structurally equal.
C5_IdentityRoundTrip ==
    (mode = "ser" /\ origin # NoOrigin /\ Returned) => result = Ok(origin.v)

\* The input is a primitive of the round trip: a bool, an i64, a u64, a
\* finite f64 or a string, given to the Scalar-only builder.
IsPrimitive ==
    /\ mode = "ser" /\ origin = NoOrigin /\ ty = "ValueNoObjOrArr"
    /\ \/ input.k \in {"bool", "i64", "u64", "str"}
       \/ input.k = "f64" /\ is_finite(input.f)
\* The request for the primitive's own kind.
OwnKind == IF input.k = "str" THEN "string" ELSE input.k

\* C6: a bool, i64, u64, finite f64 or string converts to a node, and the
\* node, deserialized owned or borrowed as the primitive's own kind, gives
\* back a value equal to the primitive.
C6_PrimitiveRoundTrip ==
    IsPrimitive =>
        /\ Returned => Yielded
        /\ (pc = "back" /\ back.req = OwnKind) => back.res = Ok(input)

\* The least i64 recovered from a borrowed node.
C6_Witness ==
    /\ IsPrimitive /\ pc = "back"
    /\ input = DInt("i64", I64_MIN)
    /\ back.req = "i64" /\ ~back.owned
    /\ back.res = Ok(input)

RECURSIVE FiniteNumbers(_)
\* No Number of the tree holds a NaN or an infinity.
FiniteNumbers(v) ==
    CASE v.tag = "Number" -> v.num.kind = "Float" => is_finite(v.num.f)
      [] v.tag = "Array" -> \A i \in 1..Len(v.xs) : FiniteNumbers(v.xs[i])
      [] OTHER -> TRUE
\* What a float becomes.
FloatNode(f) == IF is_finite(f) THEN Number(Float(f)) ELSE Null

\* C7: serialize_f32 / serialize_f64, From<f32> / From<f64> and visit_f64
\* give Null for a NaN or an infinity and a Number for a finite float; no
\* Number of a built value, or of an Array being built, is NaN or infinite.
C7_NonFiniteIsNull ==
    /\ \A f \in Floats : From_f64(f) = FloatNode(f) /\ From_f32(f) = FloatNode(f)
    /\ (mode = "ser" /\ input.k \in FloatKinds /\ Returned)
          => result = Ok(FloatNode(input.f))
    /\ (mode = "de" /\ ty \in {"ScalarValue", "ValueNoObjOrArr"}
          /\ input.k \in FloatKinds /\ Returned)
          => result = Ok(FloatNode(input.f))
    /\ Yielded => FiniteNumbers(result.v)
    /\ ser.kind \in {"SerializeVec", "SerializeTupleVariant"}
          => \A i \in 1..Len(ser.vec) : FiniteNumbers(ser.vec[i])

\* A NaN converted to Null by the builder.
C7_Witness ==
    /\ mode = "ser" /\ Returned
    /\ input.k \in FloatKinds /\ input.f = NaN
    /\ result = Ok(Null)

\* The conversions of the elements of a sequence, in order.
Converted(xs) == [i \in 1..Len(xs) |-> ToValue("ValueNoObj", xs[i]).v]

\* C8: the Scalar-or-Array builder makes of a sequence, tuple or tuple
\* struct the Array of the conversions of its elements, in order and
\* recursively, [1, "a", [2, 3]] giving Array([Number(1), String("a"),
\* Array([Number(2), Number(3)])]); an Array serializes as the sequence of
\* its children in stored order, and so comes back as itself.
C8_SeqBecomesArray ==
    (mode = "ser" /\ ty = "ValueNoObj" /\ input.k \in SeqKinds) =>
        /\ pc = "feed" =>
              ser.vec = Converted(SubSeq(input.xs, 1, Len(input.xs) - Len(rest)))
        /\ (Returned /\ Yielded) => result.v = Array(Converted(input.xs))
        /\ (Returned /\ \A i \in 1..Len(input.xs) : ToValue("ValueNoObj", input.xs[i]).ok)
              => Yielded
        /\ (Returned /\ input = Example) =>
              result = Ok(Array(<<Number(PosInt(1)), String("a"),
                                  Array(<<Number(PosInt(2)), Number(PosInt(3))>>)>>))
        /\ (origin # NoOrigin /\ origin.v.tag = "Array") =>
              /\ input = DSeq([i \in 1..Len(origin.v.xs) |->
                                  ValueNoObj_serialize(origin.v.xs[i])])
              /\ Returned => result = Ok(origin.v)

\* The sequence [1, "a", [2, 3]] converted.
C8_Witness ==
    /\ mode = "ser" /\ ty = "ValueNoObj" /\ Returned
    /\ input = Example
    /\ Yielded /\ Len(result.v.xs) = 3

\* C9: a unit variant converts, for both shapes, to the String of the
\* variant's name whatever the enum's name and the variant's index, and the
\* Scalar-only String, asked for an enum, is taken as the same unit variant.
C9_UnitVariant ==
    (mode = "ser" /\ input.k = "unit_variant") =>
        /\ Returned => result = Ok(String(input.variant))
        /\ (pc = "back" /\ back.req = "enum") =>
              /\ back.call = Ok(EnumDeserializer(input.variant, None))
              /\ back.res.ok
              /\ back.res.v.k = "unit_variant"
              /\ back.res.v.variant = input.variant

\* The variant Bar of an enum of another name and index, taken back as Bar.
C9_Witness ==
    /\ mode = "ser" /\ pc = "back"
    /\ input = DUnitVariant("F", 0, "Bar")
    /\ back.req = "enum"
    /\ back.res = Ok(DUnitVariant("E", 1, "Bar"))

C11_Bytes ==
    (mode = "ser" /\ input.k = "bytes" /\ Returned) =>
        IF ty = "ValueNoObj"
        THEN /\ Yielded
             /\ result.v.tag = "Array"
             /\ Len(result.v.xs) = Len(input.bs)
             /\ \A i \in 1..Len(input.bs) : result.v.xs[i] = Number(PosInt(input.bs[i]))
        ELSE ~Yielded /\ ~result.ok

\* Two bytes converted to an Array of two Numbers.
C11_Witness ==
    /\ mode = "ser" /\ Returned /\ ty = "ValueNoObj"
    /\ input.k = "bytes" /\ Len(input.bs) = 2 /\ input.bs[1] # input.bs[2]
    /\ Yielded /\ Len(result.v.xs) = 2

\* The Number of an integer.
IntNode(n) == Number(IF n < 0 THEN NegInt(n) ELSE PosInt(n))

\* C12: for both shapes a bool gives Bool of it, an i8..i64 or u8..u64 the
\* Number of the same integer, a str or char the String of the same text,
\* unit, None and a unit struct Null, and Some(x) or a newtype struct of x
\* what x itself converts to.
C12_ScalarMapping ==
    (mode = "ser" /\ Returned) =>
        /\ input.k = "bool" => result = Ok(Bool(input.b))
        /\ input.k \in IntKinds => result = Ok(IntNode(input.n))
        /\ input.k \in {"str", "char"} => result = Ok(String(input.s))
        /\ input.k \in {"unit", "none", "unit_struct"} => result = Ok(Null)
        /\ input.k \in {"some", "newtype_struct"} => result = ToValue(ty, input.x)

\* Some(-1) converted to the Number -1.
C12_Witness ==
    /\ mode = "ser" /\ Returned
    /\ input = DSome(DInt("i64", -1))
    /\ result = Ok(Number(NegInt(-1)))

\* The raw-value struct: named by the token, its single field named by the
\* token and holding a text.
IsRawStruct(x) ==
    /\ x.k = "struct" /\ x.name = RAW_TOKEN /\ Len(x.fs) = 1
    /\ x.fs[1].key = RAW_TOKEN /\ x.fs[1].val.k = "str"
\* A source map whose first key is the token and whose first value is a text.
IsRawMap(c) ==
    /\ c.k = "map" /\ c.es # <<>>
    /\ c.es[1].key \in {DStr(RAW_TOKEN), DString(RAW_TOKEN)}
    /\ c.es[1].val.k \in {"str", "string"}
OneTwoThree == DSeq(<<DInt("u64", 1), DInt("u64", 2), DInt("u64", 3)>>)

\* C13: with raw values enabled, converting the raw-value struct holding the
\* text T, and deserializing a map whose first key is the raw-value token
\* with the string T, both give the tree that the from-text conversion gives
\* for T and fail whenever it fails; for T = "[1,2,3]" on the Scalar-or-Array
\* type that tree is the one of converting the sequence [1,2,3].
C13_RawValueRoute ==
    (raw_value /\ Returned) =>
        /\ (mode = "ser" /\ IsRawStruct(input)) =>
               LET T == input.fs[1].val.s
               IN /\ result = from_str(ty, T)
                  /\ (ty = "ValueNoObj" /\ T = "[1,2,3]") =>
                         result = ToValue("ValueNoObj", OneTwoThree)
        /\ (mode = "de" /\ IsRawMap(input)) =>
               LET T == input.es[1].val.s
               IN /\ result.ok = from_str(ty, T).ok
                  /\ result.ok => result = from_str(ty, T)
                  /\ (ty = "ValueNoObj" /\ T = "[1,2,3]") =>
                         result = ToValue("ValueNoObj", OneTwoThree)

\* The raw-value struct of "[1,2,3]" converted to the Array of 1, 2, 3.
C13_Witness ==
    /\ raw_value /\ mode = "ser" /\ Returned /\ ty = "ValueNoObj"
    /\ IsRawStruct(input) /\ input.fs[1].val.s = "[1,2,3]"
    /\ result = Ok(Array(<<Number(PosInt(1)), Number(PosInt(2)), Number(PosInt(3))>>))

\* The source is a map whose first key is a string, borrowed or owned.
FirstKeyIsString ==
    /\ mode = "de" /\ input.k = "map" /\ input.es # <<>>
    /\ input.es[1].key.k \in {"str", "string"}
\* The class the claim gives to the text s.
ClassOf(s) ==
    IF arbitrary_precision /\ s = NUMBER_TOKEN THEN KeyClass_Number
    ELSE IF raw_value /\ s = RAW_TOKEN THEN KeyClass_RawValue
    ELSE KeyClass_Map(s)

\* C14: the Key Classifier never fails on a string key; it gives the number
\* class exactly to the number token with arbitrary precision enabled, the
\* raw-value class exactly to the raw-value token with raw values enabled,
\* and the ordinary class carrying the same text to everything else; visit_str
\* and visit_string classify the same text alike.  The map's conversion
\* follows the class: an ordinary first key is never read as a number or a
\* raw value, and is the first key of the ScalarValue Object.
C14_KeyClassifier ==
    FirstKeyIsString =>
        LET key == input.es[1].key
            class == KeyClassifier_deserialize(key)
        IN /\ class = Ok(ClassOf(key.s))
           /\ class.v = KeyClass_Number <=> (arbitrary_precision /\ key.s = NUMBER_TOKEN)
           /\ class.v = KeyClass_RawValue <=> (raw_value /\ key.s = RAW_TOKEN)
           /\ KeyClassifier_visit_str(key.s) = KeyClassifier_visit_string(key.s)
           /\ (Returned /\ class.v = KeyClass_Map(key.s)) =>
                  IF ty = "ScalarValue"
                  THEN Yielded => /\ result.v.tag = "Object"
                                  /\ result.v.es[1].key = key.s
                  ELSE result = invalid_type("Map", "non map")
           /\ (Returned /\ class.v = KeyClass_Number /\ Yielded) =>
                  result.v.tag = "Number"

\* An owned number-token key classified as the number class: the map
\* deserialized to the Number 1.
C14_Witness ==
    /\ FirstKeyIsString /\ Returned /\ arbitrary_precision
    /\ input.es[1].key = DString(NUMBER_TOKEN)
    /\ result = Ok(Number(PosInt(1)))

\* SerializeMap::serialize_key has just run on the key Head(rest).key.
KeyStep == pc = "feed" /\ input.k = "map" /\ rest # <<>> /\ pc' # "feed"
\* What the Map-Key Encoder returned to serialize_key: the key it stored, or
\* the failure that ended the conversion.
KeyOutcome == IF pc' = "value" THEN OkKey(ser'.next_key.key) ELSE result'
CompoundKeyKinds ==
    {"bytes", "unit", "unit_struct", "none", "some", "seq", "tuple",
     "tuple_struct", "map", "struct", "newtype_variant", "tuple_variant",
     "struct_variant"}
RECURSIVE Unwrapped(_)
\* The value inside the newtype structs around a key.
Unwrapped(x) == IF x.k = "newtype_struct" THEN Unwrapped(x.x) ELSE x
\* The text of a primitive or string-like key.
KeyText(x) ==
    CASE x.k = "bool" -> IF x.b THEN "true" ELSE "false"
      [] x.k \in IntKinds \cup {"i128", "u128"} -> ToString(x.n)
      [] x.k \in {"char", "str"} -> x.s
      [] x.k = "unit_variant" -> x.variant

\* C15: the Map-Key Encoder fails with key-must-be-a-string for a key that
\* is bytes, unit, a unit struct, None, Some, a sequence, a tuple, a tuple
\* struct, a map, a struct or a newtype, tuple or struct variant, and gives a
\* string for every primitive or string-like key: the text of a bool, the
\* decimal text of an integer of every width, the same text for a char or a
\* str, the variant's name for a unit variant, and for a newtype struct what
\* its inner value gives.
C15_MapKeyEncoder ==
    [][KeyStep =>
         LET key == Unwrapped(Head(rest).key)
         IN /\ key.k \in CompoundKeyKinds => KeyOutcome = key_must_be_a_string
            /\ key.k \notin CompoundKeyKinds \cup FloatKinds =>
                   KeyOutcome = OkKey(KeyText(key))]_vars

\* C16: in the Map-Key Encoder an f32 or f64 key succeeds exactly when it is
\* finite: NaN and the infinities fail with float-key-must-be-finite, and a
\* finite key is rendered as its shortest round-trip decimal text, 1.5 as
\* "1.5".
C16_FloatKey ==
    [][KeyStep =>
         LET key == Head(rest).key
         IN key.k \in FloatKinds =>
              /\ KeyOutcome.ok <=> is_finite(key.f)
              /\ ~is_finite(key.f) => /\ KeyOutcome = float_key_must_be_finite
                                      /\ KeyOutcome # key_must_be_a_string
              /\ is_finite(key.f) => KeyOutcome = OkKey(format_finite(key.f))
              /\ key.f = Finite(3) => KeyOutcome = OkKey("1.5")
              /\ key.f = Finite(-2) => KeyOutcome = OkKey("-1.0")
              /\ key.f = Finite(0) => KeyOutcome = OkKey("0.0")]_vars

\* The key 1.5 stored as the text "1.5".
C16_Witness ==
    /\ mode = "ser" /\ input.k = "map" /\ pc = "value"
    /\ Head(rest).key = DFloat("f64", Finite(3))
    /\ ser.next_key = SomeKey("1.5")

\* SerializeStruct::serialize_field has just handed the value of the field
\* named token to the emitter of a struct of the given kind.
EmitterStep(kind, token) ==
    /\ pc = "feed" /\ input.k = "struct" /\ rest # <<>>
    /\ ser.kind = kind /\ Head(rest).key = token
    /\ (pc' = "done" \/ rest' = Tail(rest))
\* What the emitter returned: the node kept as the struct's value, or the
\* failure that ended the conversion.
EmitterOutcome == IF pc' = "done" THEN result' ELSE Ok(ser'.out_value.v)
\* The Number a text denotes, or the parse failure.
ParsedNumber(text) ==
    LET n == Number_from_str(text) IN IF n.ok THEN Ok(Number(n.v)) ELSE n

OwnCallback(v, owned) ==
    CASE v.tag = "Null" -> DUnit
      [] v.tag = "Bool" -> DBool(v.b)
      [] v.tag = "Number" ->
            (CASE v.num.kind = "PosInt" -> DInt("u64", v.num.n)
               [] v.num.kind = "NegInt" -> DInt("i64", v.num.n)
               [] v.num.kind = "Float" -> DFloat("f64", v.num.f))
      [] v.tag = "String" -> IF owned THEN DString(v.s) ELSE DStr(v.s)

\* C19: asked for any value, the Value-Backed Deserializer, owned or
\* borrowed, makes the one visitor call of the node's own variant: the unit
\* call for Null, the bool call with b for Bool(b), the number's own call for
\* a Number (an integer call for an integer, a float call for a float), and
\* for String(s) the string call with s, the borrowed-str call when borrowed
\* and the owned-string call when owned.
C19_AnyDispatch ==
    (pc = "back" /\ back.req = "any") =>
        /\ back.call = Ok(OwnCallback(result.v, back.owned))
        /\ result.v.tag = "Number" =>
              (back.call.v.k \in FloatKinds <=> result.v.num.kind = "Float")

\* A borrowed String("a") handed to the visitor as a borrowed str.
C19_Witness ==
    /\ pc = "back" /\ back.req = "any" /\ ~back.owned
    /\ result = Ok(String("a"))
    /\ back.call = Ok(DStr("a"))

\* A numeric kind was asked of a node that is not a Number.
NumericOfNonNumber ==
    pc = "back" /\ back.req \in NumericKinds /\ result.v.tag # "Number"

\* C20 as stated: asked for i8 .. u128, f32 or f64, the Value-Backed
\* Deserializer returns an invalid-type failure for every Null, Bool or
\* String node without making any visitor call, whatever capabilities are
\* enabled.
C20_NumericRequestRefused ==
    NumericOfNonNumber =>
        /\ ~back.call.ok
        /\ back.call = Value_invalid_type(result.v, back.req)

\* C20, amended: asked for i8 .. u128, f32 or f64 by a numeric consumer, a
\* Null, Bool or String node never satisfies the request, which fails with
\* an invalid-type error.  Without arbitrary precision the deserializer
\* returns that error itself and makes no visitor call; with arbitrary
\* precision it makes the visitor call of the node's own variant, as for
\* any value, and the error is the one the numeric visitor answers with.
C20_NumericRequestFails ==
    NumericOfNonNumber =>
        /\ ~back.res.ok /\ back.res.code = "InvalidType"
        /\ ~arbitrary_precision =>
              /\ back.call = Value_invalid_type(result.v, back.req)
              /\ back.res = back.call
        /\ arbitrary_precision =>
              back.call = Ok(OwnCallback(result.v, back.owned))

\* With arbitrary precision, an i8 asked of an owned Null: the visitor's
\* unit call is made and the visitor refuses it.
C20_Witness ==
    /\ NumericOfNonNumber /\ arbitrary_precision
    /\ back.req = "i8" /\ back.owned /\ result = Ok(Null)
    /\ back.call = Ok(DUnit)
    /\ ~back.res.ok

\* C21.  A request for a sequence, a tuple, a tuple struct, a map or a
\* struct, made of the owned or of the borrowed deserializer, fails for
\* every node with the type mismatch that describes the node; no visitor
\* callback is made and the consumer receives that error.
CompoundRequests == SeqRequests \cup {"map", "struct"}
C21_CompoundRequestsFail ==
    (pc = "back" /\ back.req \in CompoundRequests) =>
        /\ ~back.call.ok
        /\ back.call = invalid_type(unexpected(result.v), back.req)
        /\ back.res = back.call

\* A struct asked of a borrowed String node fails, naming the string.
C21_Witness ==
    /\ pc = "back" /\ back.req = "struct" /\ ~back.owned
    /\ result = Ok(String("a"))
    /\ back.res = invalid_type("Str(a)", "struct")

\* C22.  An enum request accepts only a String node, which it presents to
\* the visitor as the variant identifier with no payload: asking the variant
\* access for a unit variant then succeeds, asking it for a newtype, tuple
\* or struct payload fails with an invalid-type error naming a unit variant.
\* A Null, Bool or Number node is refused with the type mismatch that
\* describes it before any variant access exists.
EnumRequested == pc = "back" /\ back.req \in EnumRequests
PayloadKind ==
    CASE back.req = "enum_newtype" -> "newtype variant"
      [] back.req = "enum_tuple" -> "tuple variant"
      [] back.req = "enum_struct" -> "struct variant"
      [] OTHER -> ""
C22_EnumRequest ==
    EnumRequested =>
        IF result.v.tag = "String"
        THEN /\ back.call = Ok([k |-> "enum", variant |-> result.v.s, value |-> None])
             /\ unit_variant(back.call.v.value) = OkUnit
             /\ (\E i \in 1..Len(Variants) : Variants[i] = result.v.s) =>
                   IF back.req = "enum"
                   THEN /\ back.res.ok
                        /\ back.res.v.k = "unit_variant"
                        /\ back.res.v.variant = result.v.s
                   ELSE back.res = invalid_type("UnitVariant", PayloadKind)
        ELSE /\ back.call = invalid_type(unexpected(result.v), "string or map")
             /\ back.res = back.call

\* The String "Foo", borrowed, asked for an enum of tuple variants: the
\* variant is identified and its payload request is refused.
C22_Witness ==
    /\ EnumRequested /\ back.req = "enum_tuple" /\ ~back.owned
    /\ result = Ok(String("Foo"))
    /\ back.call.ok
    /\ back.res = invalid_type("UnitVariant", "tuple variant")

\* C23.  A bool request, a string request (string, str, char, identifier)
\* and a unit request (unit, unit struct) hand the primitive to the visitor
\* exactly when the node is a Bool, a String, Null respectively; for every
\* other node they fail with an invalid-type error whose 'unexpected'
\* describes the node: Unit for Null, Bool(b), the number, Str(s).
UnitRequests == {"unit", "unit_struct"}
PrimitiveRequested ==
    pc = "back" /\ back.req \in {"bool"} \cup StringRequests \cup UnitRequests
WantedTag ==
    CASE back.req = "bool" -> "Bool"
      [] back.req \in StringRequests -> "String"
      [] back.req \in UnitRequests -> "Null"
      [] OTHER -> ""
Described(v) ==
    CASE v.tag = "Null" -> "Unit"
      [] v.tag = "Bool" -> IF v.b THEN "Bool(true)" ELSE "Bool(false)"
      [] v.tag = "String" -> "Str(" \o v.s \o ")"
      [] v.tag = "Number" -> unexpected(v)
C23_PrimitiveRequests ==
    PrimitiveRequested =>
        IF result.v.tag = WantedTag
        THEN /\ back.call.ok
             /\ CASE back.req = "bool" -> back.call.v = DBool(result.v.b)
                  [] back.req \in StringRequests ->
                        /\ back.call.v.k = (IF back.owned THEN "string" ELSE "str")
                        /\ back.call.v.s = result.v.s
                  [] back.req \in UnitRequests -> back.call.v = DUnit
        ELSE /\ ~back.call.ok
             /\ back.call.code = "InvalidType"
             /\ back.call.unexp = Described(result.v)
             /\ back.res = back.call

\* A unit struct asked of an owned Bool(true) is refused, naming the bool.
C23_Witness ==
    /\ PrimitiveRequested /\ back.req = "unit_struct" /\ back.owned
    /\ result = Ok(Bool(TRUE))
    /\ back.res = invalid_type("Bool(true)", "unit_struct")

\* C24.  An option request never fails: it makes the visitor's 'none'
\* callback exactly when the node is Null, and otherwise the 'some'
\* callback, passing the same node unchanged as the content's deserializer.
OptionRequested == pc = "back" /\ back.req = "option"
C24_OptionRequest ==
    OptionRequested =>
        /\ back.call.ok
        /\ (back.call.v = DNone) <=> (result.v.tag = "Null")
        /\ result.v.tag # "Null" =>
              /\ back.call.v.k = "some"
              /\ back.call.v.node = result.v
        /\ back.res.ok

\* An option asked of a borrowed Bool(false): 'some' of that very node.
C24_Witness ==
    /\ OptionRequested /\ ~back.owned
    /\ result = Ok(Bool(FALSE))
    /\ back.call = Ok([k |-> "some", node |-> Bool(FALSE)])

\* C25.  A newtype-struct request under the raw-value token's name, with
\* raw values enabled, re-renders the node as its wire text and hands that
\* text to the visitor as the raw value's one-entry map, for every node
\* variant; under any other name, or with raw values disabled, the node is
\* passed through unchanged by the newtype-struct callback.
NewtypeRequested == pc = "back" /\ back.req \in {"newtype_struct", "newtype_struct_raw"}
WireText(v) ==
    CASE v.tag = "Null" -> "null"
      [] v.tag = "Bool" -> IF v.b THEN "true" ELSE "false"
      [] v.tag = "Number" -> Number_to_string(v.num)
      [] v.tag = "String" -> escape_str(v.s)
C25_NewtypeStructRequest ==
    NewtypeRequested =>
        IF back.req = "newtype_struct_raw" /\ raw_value
        THEN back.call = Ok([k |-> "raw_map", text |-> WireText(result.v)])
        ELSE back.call = Ok([k |-> "newtype_struct", node |-> result.v])

\* With raw values, the owned String "a" asked under the token's name is
\* handed over as the text "a" between quotes.
C25_Witness ==
    /\ NewtypeRequested /\ back.req = "newtype_struct_raw" /\ raw_value
    /\ back.owned /\ result = Ok(String("a"))
    /\ back.call = Ok([k |-> "raw_map", text |-> "\"a\""])

\* C26.  Every rejection by the Value Builder and its sub-serializers is a
\* returned error: a conversion aborts only when a struct of a reserved name
\* (the number token's or the raw-value token's) is ended without having
\* successfully received its token-named field, and then it does abort.
Aborted == "ok" \in DOMAIN result /\ ~result.ok /\ result.code = "abort"
ReservedStructEnded ==
    /\ mode = "ser" /\ pc = "done" /\ input.k = "struct"
    /\ ser.kind \in {"Number", "RawValue"}
    /\ rest = <<>>
    /\ ~ser.out_value.some
C26_NoAbort ==
    /\ Aborted => ReservedStructEnded
    /\ (ReservedStructEnded /\ input.fs = <<>>) => Aborted

\* A struct of the number token's name given a field of another name: the
\* field is rejected with the invalid-number error, returned as a value.
C26_Witness ==
    /\ mode = "ser" /\ pc = "done" /\ input.k = "struct"
    /\ ser.kind = "Number" /\ input.fs # <<>>
    /\ input.fs[1].key = "a"
    /\ result = invalid_number
    /\ ~Aborted

\* C27.  The Scalar-or-Array builder converts a sequence all or nothing.
\* Feeding an element that converts pushes its node and goes on; feeding
\* the first element that does not convert returns that element's error
\* unchanged, pushes nothing and ends the conversion with that error.  A
\* finished conversion is the Array of every element's node if every
\* element, at every depth, converts, and the first failing element's error
\* otherwise, never a partial Array.
VecKinds == SeqKinds \cup {"tuple_variant"}
ElementStep ==
    /\ mode = "ser" /\ ty = "ValueNoObj" /\ pc = "feed"
    /\ input.k \in VecKinds /\ rest # <<>>
    /\ (rest' # rest \/ pc' # pc)
ElementNode(i) == ToValue("ValueNoObj", input.xs[i])
C27_AllOrNothing ==
    /\ [][ElementStep =>
            LET r == ToValue("ValueNoObj", Head(rest))
            IN IF r.ok
               THEN /\ pc' = "feed" /\ rest' = Tail(rest)
                    /\ ser'.vec = Append(ser.vec, r.v)
                    /\ result' = result
               ELSE /\ pc' = "done" /\ result' = r
                    /\ ser' = ser]_vars
    /\ []((mode = "ser" /\ ty = "ValueNoObj" /\ pc = "done" /\ input.k \in VecKinds) =>
            LET failing == {i \in 1..Len(input.xs) : ~ElementNode(i).ok}
            IN IF failing = {}
               THEN result = Ok(Array([i \in 1..Len(input.xs) |-> ElementNode(i).v]))
               ELSE LET first == CHOOSE i \in failing : \A j \in failing : i <= j
                    IN /\ result = ElementNode(first)
                       /\ ~result.ok
                       /\ ser.vec = [i \in 1..(first - 1) |-> ElementNode(i).v])

\* A sequence of true and of a sequence holding a map: the second element
\* fails at depth two, and the conversion ends with its error while the
\* one node pushed before stays in the dropped serializer.
C27_Witness ==
    /\ mode = "ser" /\ ty = "ValueNoObj" /\ pc = "done"
    /\ input = DSeq(<<DBool(TRUE), DSeq(<<DMap(<<>>)>>)>>)
    /\ ~result.ok
    /\ result = invalid_type("Map", "Object aren't supported")
    /\ ser.vec = <<Bool(TRUE)>>

\* C28.  ScalarValue serializes a Number through serialize_i32 whatever the
\* number's width or kind, so for a stored number that is not an integer of
\* the i32 range the value emitted differs from the stored one, and so does
\* the node rebuilt from it;
\* deserializing into ScalarValue keeps every i64, every u64 and every
\* finite f64 as the Number of that very value.
ScalarNumberSerialized ==
    /\ mode = "ser" /\ origin # NoOrigin /\ pc = "done"
    /\ origin.t = "ScalarValue" /\ origin.v.tag = "Number"
\* Twice the stored value (floats are counted in halves).
StoredHalves(n) == IF n.kind = "Float" THEN n.f.m ELSE 2 * n.n
FitsI32(n) ==
    /\ StoredHalves(n) % 2 = 0
    /\ StoredHalves(n) \div 2 \in IMin(W32)..IMax(W32)
ScalarNumberDeserialized ==
    /\ mode = "de" /\ ty = "ScalarValue" /\ pc = "done"
    /\ \/ input.k \in {"i64", "u64"}
       \/ input.k = "f64" /\ is_finite(input.f)
C28_ScalarNumberNarrowed ==
    /\ ScalarNumberSerialized =>
          /\ input.k = "i32"
          /\ input.n \in IMin(W32)..IMax(W32)
          /\ ~FitsI32(origin.v.num) => (2 * input.n # StoredHalves(origin.v.num))
          /\ ~FitsI32(origin.v.num) => (result.ok /\ result.v # origin.v)
    /\ ScalarNumberDeserialized =>
          /\ result.ok /\ result.v.tag = "Number"
          /\ StoredHalves(result.v.num) =
                (IF input.k = "f64" THEN input.f.m ELSE 2 * input.n)
          /\ (result.v.num.kind = "Float") <=> (input.k = "f64")

\* The largest u64 held by a ScalarValue is emitted as another integer and
\* comes back as another node.
C28_Witness ==
    /\ ScalarNumberSerialized
    /\ origin.v = Number(PosInt(U64_MAX))
    /\ input.n # U64_MAX
    /\ result.ok /\ result.v # origin.v

\* The Scalar-or-Array builder's serializer of a map, or of a struct of an
\* ordinary name, is open: begun and not yet failed.
OrdinaryMapOpen ==
    /\ mode = "ser" /\ ty = "ValueNoObj" /\ pc \in {"feed", "value"}
    /\ ser.kind = "Map"
\* The errors serialize_key may return for a key: the two of the Map-Key
\* Encoder and, unless only those two are admitted, the error that 128-bit
\* integers are not supported, for a key of these widths.
KeyErrors(key, only_two) ==
    {key_must_be_a_string, float_key_must_be_finite}
    \cup (IF ~only_two /\ Unwrapped(key).k \in {"i128", "u128"}
          THEN {MapKey_serialize_128}
          ELSE {})
\* What serialize_key, serialize_value and end would return if called now:
\* a key either fails with one of its errors or is stored as the pending
\* key, no entry inserted; serialize_value and end fail with the
\* invalid-type error naming Object.
EveryMapCallRejects(only_two) ==
    /\ ser.map = <<>>
    /\ \A key \in MapKeys :
          LET r == NoObj_SerializeMap_serialize_key(ser, key)
          IN IF r.ok
             THEN /\ r.st.kind = "Map" /\ r.st.map = ser.map
                  /\ r.st.next_key.some
                  /\ r.st.next_key.key = MapKey_serialize(key).key
             ELSE r \in KeyErrors(key, only_two)
    /\ \A value \in EmitterCalls :
          NoObj_SerializeMap_serialize_value(ser, value)
              = invalid_type("Map", "Object aren't supported")
    /\ NoObj_SerializeMap_end(ser) = invalid_type("Map", "Object aren't supported")

AsBorrowed(x) ==
    IF "k" \in DOMAIN x /\ x.k = "string" THEN DStr(x.s) ELSE x
\* Two outcomes agree: both fail with the same error, or both succeed with
\* the same content, up to the delivery of a string.
Agree(a, b) ==
    /\ a.ok = b.ok
    /\ ~a.ok => a = b
    /\ a.ok => AsBorrowed(a.v) = AsBorrowed(b.v)

\* C30.  The owned and the borrowed deserializer are observationally
\* equivalent: for every node and every request kind, the request made of
\* the one and of the other agree on success or failure, on the error's
\* 'unexpected' and 'expected', and on the content handed to the visitor,
\* which differs only in a string being owned or borrowed; so do the
\* consumers' outcomes.  Deserializing leaves the node unchanged.
C30_OwnedBorrowedEquivalent ==
    /\ [](pc = "back" =>
            /\ back.call = Request(result.v, back.req, back.owned)
            /\ Agree(back.call, Request(result.v, back.req, ~back.owned))
            /\ Agree(back.res, FromValue(result.v, back.req, ~back.owned)))
    /\ [][(pc # "back" /\ pc' = "back") => result' = result]_vars

\* Bytes asked of the borrowed String "a": the string is lent to the
\* visitor, where the owned deserializer gives it away.
C30_Witness ==
    /\ pc = "back" /\ back.req = "bytes" /\ ~back.owned
    /\ result = Ok(String("a"))
    /\ back.call = Ok(DStr("a"))
    /\ Request(result.v, "bytes", TRUE) = Ok(DString("a"))

====
